---- MODULE Spec2Model ----
(***************************************************************************)
(* Response dispatcher and command engine of the R2000 reader driver       *)
(* (class R2KReader): the pending list responseCallbacks, the accumulator  *)
(* queues, the deadline timers, the promise of every sendCommand call and  *)
(* the continuation (.then) of every public method.                        *)
(*                                                                         *)
(* A packet is modelled by the fields the dispatcher branches on: its      *)
(* integrity, address byte, command byte, payload length and the first two *)
(* payload bytes.  A record kept by an accumulator is identified by when it *)
(* arrived: the number of commands written so far and its arrival rank.     *)
(***************************************************************************)
EXTENDS Integers, Sequences, FiniteSets, TLC

\* ---------------------------------------------------------------- bounds
MaxCalls == 3
MaxCount == 2
MaxQueue == 1
TimeoutTicks == 0
MaxRepeat == 1

\* ------------------------------------------------------------- constants
PUBLIC == 255
SUCCESS == 16
FAIL == 17
BUFFER_IS_EMPTY_ERROR == 56
MinRecordLength == 5
PacketHeader == 160
GET_MASKS == 32
IdentifierLength == 12
ISO180006BUIDLength == 8
RecordLength == 12
DefaultResponseTimeout == 1000

PhaseModes == {"OFF", "ON"}

RecordCommands ==
  {"READ", "WRITE", "WRITE_BLOCK", "LOCK", "KILL",
   "GET_INVENTORY_BUFFER", "GET_AND_RESET_INVENTORY_BUFFER"}

SightingCommands ==
  {"REAL_TIME_INVENTORY", "FAST_SWITCH_ANT_INVENTORY",
   "CUSTOMIZED_SESSION_TARGET_INVENTORY"}

Command ==
  RecordCommands \cup SightingCommands \cup
  {"TAG_MASK", "ISO18000_6B_INVENTORY", "RESET", "SET_UART_BAUDRATE",
   "SET_MODULE_FUNCTION", "SET_WORK_ANTENNA", "SET_READER_ADDRESS",
   "GET_RF_LINK_PROFILE", "GET_RF_PORT_RETURN_LOSS",
   "SET_READER_IDENTIFIER", "SET_ACCESS_EPC_MATCH", "ISO18000_6B_READ",
   "INVENTORY", "SET_FREQUENCY_REGION", "ISO18000_6B_WRITE",
   "ISO18000_6B_LOCK", "ISO18000_6B_QUERY_LOCK", "GET_READER_IDENTIFIER",
   "SET_RF_LINK_PROFILE", "GET_WORK_ANTENNA", "GET_ACCESS_EPC_MATCH",
   "GET_MODULE_FUNCTION"}

\* Error-return policy of the commands of the model.
CommandReturnsError(command) ==
  CASE command \in {"SET_UART_BAUDRATE", "SET_MODULE_FUNCTION",
                    "SET_WORK_ANTENNA", "SET_READER_ADDRESS",
                    "SET_READER_IDENTIFIER", "SET_ACCESS_EPC_MATCH",
                    "SET_RF_LINK_PROFILE", "RESET"} -> "YES"
    [] command \in {"GET_READER_IDENTIFIER", "GET_WORK_ANTENNA",
                    "GET_ACCESS_EPC_MATCH", "GET_MODULE_FUNCTION"} -> "NO"
    [] command \in {"TAG_MASK", "GET_RF_LINK_PROFILE",
                    "GET_RF_PORT_RETURN_LOSS"} -> "SOMETIMES"
    [] OTHER -> "IF_SINGLE_BYTE_DATA"

\* The sets of public methods an application uses together, by the command
\* each one sends.
Workloads ==
  { {"READ", "SET_WORK_ANTENNA"},
    {"WRITE", "WRITE_BLOCK"},
    {"LOCK", "KILL"},
    {"GET_INVENTORY_BUFFER", "GET_AND_RESET_INVENTORY_BUFFER"},
    {"TAG_MASK", "SET_MODULE_FUNCTION"},
    {"REAL_TIME_INVENTORY", "FAST_SWITCH_ANT_INVENTORY"},
    {"REAL_TIME_INVENTORY", "ISO18000_6B_INVENTORY"},
    {"CUSTOMIZED_SESSION_TARGET_INVENTORY", "RESET"},
    {"RESET", "SET_UART_BAUDRATE", "READ"},
    {"SET_READER_ADDRESS", "SET_WORK_ANTENNA"},
    {"GET_RF_LINK_PROFILE", "GET_RF_PORT_RETURN_LOSS"},
    {"SET_READER_IDENTIFIER", "SET_ACCESS_EPC_MATCH", "ISO18000_6B_READ"},
    {"INVENTORY"} }

Addresses == {1, 2}

\* The runs of the model: a workload, the target address it is run with,
\* the addresses of the readers on the serial line and the number of calls
\* the application makes.
Configurations ==
  { <<{"READ", "SET_WORK_ANTENNA"}, 1, {1}, MaxCalls>>,
    <<{"READ", "SET_WORK_ANTENNA"}, PUBLIC, Addresses, MaxCalls - 1>>,
    <<{"REAL_TIME_INVENTORY", "FAST_SWITCH_ANT_INVENTORY"}, 1, {1},
      MaxCalls - 1>> }
  \cup { <<w, 1, Addresses, MaxCalls - 1>> :
           w \in Workloads \ {{"READ", "SET_WORK_ANTENNA"},
                              {"REAL_TIME_INVENTORY",
                               "FAST_SWITCH_ANT_INVENTORY"}} }

CallIds == 1..MaxCalls

VARIABLES
  api,                \* the workload of this run
  budget,             \* the number of calls the application makes
  readers,            \* addresses of the readers on the serial line
  rs485Address,       \* configured target address
  baudRate,           \* baud rate of the local serial port
  phaseMode,          \* PhaseMode flag
  sent,               \* commands written to the serial port, in write order
  responseCallbacks,  \* pending list: sequence of [command, id]
  queues,             \* address -> accumulator record
  promise,            \* id -> state of the promise sendCommand returned
  res,                \* id -> ResponseData the promise was resolved with
  timer,              \* id -> deadline timer of the call
  microtasks,         \* ids whose .then continuation is queued
  returned,           \* what the last step returned to the caller of a method
  emitted,            \* events emitted by the last step
  written,            \* bytes the last step wrote to the serial port
  threw,              \* a handler threw: the uncaught exception ends the process
  logged,             \* messages the last step wrote to the debug log
  inbound,            \* the inbound byte stream of a frame-reader run, by item
  cursor,             \* number of its bytes the serial port has handed over
  dataBuf,            \* rolling buffer of the frame reader
  resolvers,          \* command byte -> number of waiting resolvers
  response_queue,     \* responses nothing was waiting for
  received,           \* the responses the frame reader found, in order
  tagData,            \* the payload bytes of the sighting of a sighting run
  tag,                \* the tag the last sighting was parsed into
  device              \* the reader of an echo run: its settings, the number
                      \* of requests it has served, its replies in flight

\* The state of the frame reader of main.ts.
frame == <<inbound, cursor, dataBuf, resolvers, response_queue, received>>

\* What a run fixes at its start, and what the command engine never touches.
\* The bytes of a sighting and what they were parsed into.
sighting == <<tagData, tag>>

run == <<api, budget, readers, frame, sighting, device>>

\* What only the continuation of a set... method changes.
settings == <<rs485Address, baudRate>>

vars == <<run, settings, phaseMode, sent, responseCallbacks, queues,
          promise, res, timer, microtasks, returned, emitted,
          written, threw, logged>>

\* ------------------------------------------------------------- helpers
QueueNames == {"masks", "inventory", "read", "write", "lock", "kill"}

EmptyQueues ==
  [defined |-> TRUE, masks |-> <<>>, inventory |-> <<>>, read |-> <<>>,
   write |-> <<>>, lock |-> <<>>, kill |-> <<>>]

NoQueues == [EmptyQueues EXCEPT !.defined = FALSE]

NoRes == [set |-> FALSE, length |-> 0, address |-> 0, command |-> "",
          datalen |-> 0, head |-> <<>>, errorCode |-> -1, success |-> FALSE,
          data |-> <<>>]

\* The value a public method hands to its caller: kind is the kind of value
\* ("void", "true", "false", "result", "records" with the list recs) or the
\* error it is rejected with ("Timeout", "TypeError", "RangeError").
Returned(id, kind, recs) == [id |-> id, kind |-> kind, recs |-> recs]

NoReturn == Returned(0, "none", <<>>)

NoTimer == [state |-> "none", left |-> 0, full |-> 0, ms |-> 0]

\* The accumulator a public method drains in its continuation.
QueueOf(command) ==
  CASE command \in {"GET_INVENTORY_BUFFER", "GET_AND_RESET_INVENTORY_BUFFER"}
         -> "inventory"
    [] command = "TAG_MASK" -> "masks"
    [] command = "READ" -> "read"
    [] command \in {"WRITE", "WRITE_BLOCK"} -> "write"
    [] command = "LOCK" -> "lock"
    [] command = "KILL" -> "kill"
    [] OTHER -> "none"

\* ------------------------------------------------------------- packets
RFLinkProfile == 208..211
FAIL_TO_GET_RF_PORT_RETURN_LOSS == 238

\* First payload bytes of the replies that are no records: the byte only
\* matters where the dispatcher reads it as an error code.
FirstBytes(command, dlen) ==
  IF command = "TAG_MASK" /\ dlen = 1 THEN {0, FAIL}
  ELSE IF command = "GET_RF_LINK_PROFILE" THEN {209, FAIL}
  ELSE IF command = "GET_RF_PORT_RETURN_LOSS"
    THEN {SUCCESS, FAIL_TO_GET_RF_PORT_RETURN_LOSS}
  ELSE IF dlen > 1 /\ CommandReturnsError(command) # "YES" THEN {0}
  ELSE IF command \in {"GET_INVENTORY_BUFFER",
                       "GET_AND_RESET_INVENTORY_BUFFER"}
    THEN {SUCCESS, FAIL, BUFFER_IS_EMPTY_ERROR}
  ELSE {SUCCESS, FAIL}

PayloadLengths(command) ==
  CASE command \in RecordCommands -> {1, 2, RecordLength}
    [] command = "TAG_MASK" -> {1, 8, 9}
    [] command \in SightingCommands -> {1, 2, 7, 8}
    [] command = "ISO18000_6B_INVENTORY" -> {1, 2, 9}
    [] command = "ISO18000_6B_READ" -> {1, 2}
    [] command = "INVENTORY" -> {1, 9}
    [] OTHER -> {1}

IsRecordShape(command, dlen) ==
  \/ command \in RecordCommands /\ dlen >= MinRecordLength
  \/ command = "TAG_MASK" /\ dlen > 7

\* tag tells whether the PC, EPC and CRC fields of a tag record agree:
\* "ok", "badcrc" (the CRC does not match PC + EPC) or "badpc" (the EPC
\* length the PC declares is not the length of the EPC slice).  data holds
\* the payload of a packet that is modelled byte by byte, and is empty
\* otherwise.
Packet(integrity, address, command, dlen, d0, d1) ==
  [integrity |-> integrity, address |-> address, command |-> command,
   dlen |-> dlen, d0 |-> d0, d1 |-> d1, tag |-> "ok", data |-> <<>>]

\* Packets the reader may deliver for the commands cs.
ReplyPackets(cs) ==
  UNION { UNION { { Packet("ok", a, c, n, b, 0) :
                      a \in Addresses, b \in FirstBytes(c, n) } :
                  n \in PayloadLengths(c) } :
          c \in cs }
RecordPackets(cs) ==
  { Packet("ok", a, c, n, 0, k) :
      a \in Addresses, c \in cs \cap RecordCommands, n \in {RecordLength},
      k \in 1..MaxCount }
MaskPackets(cs) ==
  { Packet("ok", a, c, n, 1, k) :
      a \in Addresses, c \in cs \cap {"TAG_MASK"}, n \in {8, 9},
      k \in 1..MaxCount }
BadPackets(cs) ==
  { Packet(g, 1, c, 1, SUCCESS, 0) :
      g \in {"short", "badlength", "badlrc"}, c \in cs }
  \cup { Packet("ok", a, "UNKNOWN", 1, SUCCESS, 0) : a \in Addresses }

\* First records of reader 1 whose fields disagree, and its sightings whose
\* PC disagrees with the EPC (a sighting carries no CRC).
BadTagPackets(cs) ==
  { [p EXCEPT !.tag = t] :
      p \in { r \in RecordPackets(cs) : r.d1 = 1 /\ r.address = 1 },
      t \in {"badcrc", "badpc"} }
  \cup { [p EXCEPT !.tag = "badpc"] :
           p \in { r \in ReplyPackets(cs) :
                     /\ r.command \in SightingCommands
                     /\ r.dlen = 8 /\ r.address = 1 } }

Packets(cs) ==
  { p \in ReplyPackets(cs) : ~IsRecordShape(p.command, p.dlen) }
  \cup RecordPackets(cs) \cup MaskPackets(cs) \cup BadPackets(cs)

AllPackets == Packets(Command)

\* The packets the reader may deliver to the application of a workload.
WorkloadPackets == [w \in Workloads |-> Packets(w)]

IsRecord(p) == IsRecordShape(p.command, p.dlen)

\* data.readUInt16BE(0)
Count16(p) == p.d0 * 256 + p.d1

\* What the parsers push on the accumulator queue: the record, identified
\* by the number of commands written when it arrived and its arrival rank
\* in the accumulator.
Rec(queue) == [at |-> Len(sent), idx |-> Len(queue) + 1]

\* ---------------------------------------------------------- dispatcher
\* The policy table alone, without the cases of single commands.
IsErrorResponseByPolicy(p) ==
  \/ CommandReturnsError(p.command) = "YES"
  \/ CommandReturnsError(p.command) = "IF_SINGLE_BYTE_DATA" /\ p.dlen + 3 = 4

\* The condition under which the first payload byte is taken as errorCode.
IsErrorResponse(p) ==
  LET length == p.dlen + 3 IN
  \/ CommandReturnsError(p.command) = "YES"
  \/ CommandReturnsError(p.command) = "IF_SINGLE_BYTE_DATA" /\ length = 4
  \/ p.command = "GET_RF_LINK_PROFILE" /\ p.d0 \notin RFLinkProfile
  \/ p.command = "GET_RF_PORT_RETURN_LOSS"
       /\ p.d0 = FAIL_TO_GET_RF_PORT_RETURN_LOSS
  \/ p.command = "TAG_MASK" /\ length = 4 /\ p.d0 # 0

IsAntennaMissing(p) ==
  ~IsErrorResponse(p) /\ p.command = "FAST_SWITCH_ANT_INVENTORY"
  /\ p.dlen + 3 = 5

\* success without the empty-buffer case.
SuccessOnlyCode(errorCode, command) ==
  \/ errorCode = -1
  \/ errorCode = SUCCESS

Success(errorCode, command) ==
  \/ errorCode = -1
  \/ errorCode = SUCCESS
  \/ errorCode = BUFFER_IS_EMPTY_ERROR
       /\ command = "GET_AND_RESET_INVENTORY_BUFFER"

\* Result of a parser: whether the callback is skipped, the accumulators,
\* whether the front deadline is refreshed, the events emitted and whether
\* the parser threw.
Parsed(skip, qs, refresh, events, exc) ==
  [skipCallback |-> skip, queues |-> qs, refresh |-> refresh,
   emitted |-> events, threw |-> exc, logged |-> <<>>]

validateCRC(p) == p.tag # "badcrc"

validatePCEPC(p) == p.tag # "badpc"

\* The debug messages of the two validators for a record.
Validated(p) ==
  (IF validateCRC(p) THEN <<>> ELSE <<"Invalid data CRC">>)
  \o (IF validatePCEPC(p) THEN <<>> ELSE <<"Invalid EPC length">>)

\* A parser's result with the messages it logged on the way.
Logged(parsed, messages) == [parsed EXCEPT !.logged = messages]

FrontMatches(cbs, command) == cbs # <<>> /\ cbs[1].command = command

processCommand6BInventory(p, qs, cbs) ==
  Parsed(TRUE, qs, FrontMatches(cbs, p.command), <<"tag6BFound">>, FALSE)

\* processCommandInventory returning false: the sighting falls through to
\* the resolve loop.
processCommandInventoryFallsThrough(p, qs, cbs) ==
  Parsed(FALSE, qs, FrontMatches(cbs, p.command), <<"tagFound">>, FALSE)

processCommandInventory(p, qs, cbs) ==
  Logged(Parsed(TRUE, qs, FrontMatches(cbs, p.command), <<"tagFound">>,
                FALSE),
         IF validatePCEPC(p) THEN <<>> ELSE <<"Invalid EPC length">>)

\* Completion by the count for both commands.
processCommandGetInventoryBufferByCount(p, qs) ==
  IF p.dlen < MinRecordLength THEN Parsed(FALSE, qs, FALSE, <<>>, TRUE)
  ELSE
    LET queue == Append(qs[p.address].inventory,
                        Rec(qs[p.address].inventory))
    IN
    Parsed(Count16(p) # Len(queue),
           [qs EXCEPT ![p.address].inventory = queue], FALSE, <<>>, FALSE)

processCommandGetInventoryBuffer(p, qs) ==
  IF p.dlen < MinRecordLength THEN Parsed(FALSE, qs, FALSE, <<>>, TRUE)
  ELSE
    LET queue == Append(qs[p.address].inventory,
                        Rec(qs[p.address].inventory))
    IN
    Logged(Parsed(Count16(p) # Len(queue)
                    \/ p.command = "GET_AND_RESET_INVENTORY_BUFFER",
                  [qs EXCEPT ![p.address].inventory = queue], FALSE, <<>>,
                  FALSE),
           Validated(p))

\* Completion by the 16-bit value of the first two bytes.
processCommandTagMaskCount16(p, qs) ==
  LET queue == Append(qs[p.address].masks, Rec(qs[p.address].masks)) IN
  Parsed(Count16(p) # Len(queue),
         [qs EXCEPT ![p.address].masks = queue], FALSE, <<>>, FALSE)

processCommandTagMask(p, qs) ==
  LET queue == Append(qs[p.address].masks, Rec(qs[p.address].masks)) IN
  Parsed(p.d1 # Len(queue),
         [qs EXCEPT ![p.address].masks = queue], FALSE, <<>>, FALSE)

processCommandRead(p, qs) ==
  IF p.dlen < MinRecordLength THEN Parsed(FALSE, qs, FALSE, <<>>, TRUE)
  ELSE
    LET queue == Append(qs[p.address].read, Rec(qs[p.address].read)) IN
    Logged(Parsed(Count16(p) # Len(queue),
                  [qs EXCEPT ![p.address].read = queue], FALSE, <<>>, FALSE),
           Validated(p))

\* A parser that skips a record the validators reject.
processCommandWLKValid(p, qs, name) ==
  IF p.dlen < MinRecordLength THEN Parsed(FALSE, qs, FALSE, <<>>, TRUE)
  ELSE IF ~(validateCRC(p) /\ validatePCEPC(p))
    THEN Logged(Parsed(TRUE, qs, FALSE, <<>>, FALSE), Validated(p))
  ELSE
    LET queue == Append(qs[p.address][name], Rec(qs[p.address][name])) IN
    Parsed(Count16(p) # Len(queue),
           [qs EXCEPT ![p.address][name] = queue], FALSE, <<>>, FALSE)

processCommandWLK(p, qs, name) ==
  IF p.dlen < MinRecordLength THEN Parsed(FALSE, qs, FALSE, <<>>, TRUE)
  ELSE
    LET queue == Append(qs[p.address][name], Rec(qs[p.address][name])) IN
    Logged(Parsed(Count16(p) # Len(queue),
                  [qs EXCEPT ![p.address][name] = queue], FALSE, <<>>,
                  FALSE),
           Validated(p))

processMultiResponsePacketData(p, qs0, cbs) ==
  LET qs == IF qs0[p.address].defined THEN qs0
            ELSE [qs0 EXCEPT ![p.address] = EmptyQueues]
  IN
  IF p.command = "ISO18000_6B_INVENTORY" /\ p.dlen = 9
    THEN processCommand6BInventory(p, qs, cbs)
  ELSE IF p.command \in SightingCommands /\ p.dlen > 7
    THEN processCommandInventory(p, qs, cbs)
  ELSE IF p.command \in {"GET_INVENTORY_BUFFER",
                         "GET_AND_RESET_INVENTORY_BUFFER"}
    THEN processCommandGetInventoryBuffer(p, qs)
  ELSE IF p.command = "TAG_MASK" /\ p.dlen > 7
    THEN processCommandTagMask(p, qs)
  ELSE IF p.command = "READ" THEN processCommandRead(p, qs)
  ELSE IF p.command \in {"WRITE", "WRITE_BLOCK"}
    THEN processCommandWLK(p, qs, "write")
  ELSE IF p.command = "LOCK" THEN processCommandWLK(p, qs, "lock")
  ELSE IF p.command = "KILL" THEN processCommandWLK(p, qs, "kill")
  ELSE Parsed(FALSE, qs, FALSE, <<>>, FALSE)

\* The accumulator the resynchronization loop clears for a popped entry
\* ("none" when it clears nothing).
ResyncClears(command, p) ==
  IF command \in {"GET_INVENTORY_BUFFER", "GET_AND_RESET_INVENTORY_BUFFER"}
    THEN "inventory"
  ELSE IF command = "TAG_MASK" /\ p.dlen + 5 > 13 THEN "masks"
  ELSE IF command = "READ" THEN "read"
  ELSE IF command \in {"WRITE", "WRITE_BLOCK"} THEN "write"
  ELSE IF command = "LOCK" THEN "lock"
  ELSE IF command = "KILL" THEN "kill"
  ELSE "none"

Resynced(cbs, hit, qs, exc) ==
  [responseCallbacks |-> cbs, hit |-> hit, queues |-> qs, threw |-> exc]

\* The loop that pops pending entries until one matches the packet.  hit
\* is the id of the entry whose callback is invoked (0: none).
RECURSIVE Resync(_, _, _)
Resync(cbs, p, qs) ==
  IF cbs = <<>> THEN Resynced(<<>>, 0, qs, FALSE)
  ELSE
    LET responseHandler == Head(cbs)
        name == ResyncClears(responseHandler.command, p)
    IN
    IF responseHandler.command = p.command
      THEN Resynced(Tail(cbs), responseHandler.id, qs, FALSE)
    ELSE IF name = "none" THEN Resync(Tail(cbs), p, qs)
    ELSE IF ~qs[p.address].defined
      THEN Resynced(Tail(cbs), 0, qs, TRUE)
    ELSE Resync(Tail(cbs), p, [qs EXCEPT ![p.address][name] = <<>>])

ResponseData(p) ==
  LET err == IsErrorResponse(p)
      errorCode == IF err THEN p.d0 ELSE -1
  IN [set |-> TRUE, length |-> p.dlen + 3, address |-> p.address,
      command |-> p.command,
      datalen |-> IF err THEN p.dlen - 1 ELSE p.dlen,
      head |-> IF err \/ p.dlen < 2 THEN <<>> ELSE <<p.d0, p.d1>>,
      errorCode |-> errorCode, success |-> Success(errorCode, p.command),
      data |-> IF err THEN SubSeq(p.data, 2, Len(p.data)) ELSE p.data]

\* Accepted without the integrity check.
AcceptedUnchecked(p) ==
  /\ ~(rs485Address # PUBLIC /\ p.address # rs485Address)
  /\ p.command \in Command

\* Accepted without the address filter.
AcceptedFromAnyAddress(p) ==
  /\ p.integrity = "ok"
  /\ p.command \in Command

Accepted(p) ==
  /\ p.integrity = "ok"
  /\ ~(rs485Address # PUBLIC /\ p.address # rs485Address)
  /\ p.command \in Command

\* A refresh that leaves the deadline running.
\* A timer started again with its original delay.
Rearmed(t) == [t EXCEPT !.state = "armed", !.left = t.full]

RefreshedNot(tm, cbs) == tm

\* timeout.refresh() of the front entry
Refreshed(tm, cbs) ==
  LET id == cbs[1].id IN
  IF tm[id].state \in {"armed", "fired"}
    THEN [tm EXCEPT ![id] = Rearmed(tm[id])]
    ELSE tm

\* A resolveWrapper that leaves the deadline running.
ClearedNot(tm, id) == tm

\* clearTimeout(responseTimeout) in resolveWrapper
Cleared(tm, id) == [tm EXCEPT ![id].state = "cleared", ![id].left = 0]

\* What processResponsePacket does to the state of the engine.
Dispatch(p) ==
  LET multi == IF IsErrorResponse(p)
                 THEN Parsed(FALSE, queues, FALSE, <<>>, FALSE)
               ELSE IF IsAntennaMissing(p)
                 THEN Parsed(TRUE, queues, FALSE, <<"antennaMissing">>, FALSE)
               ELSE processMultiResponsePacketData(p, queues,
                                                   responseCallbacks)
      sync == IF multi.skipCallback \/ multi.threw
                THEN Resynced(responseCallbacks, 0, multi.queues, FALSE)
                ELSE Resync(responseCallbacks, p, multi.queues)
      tm1 == IF multi.refresh THEN Refreshed(timer, responseCallbacks)
             ELSE timer
      hit == sync.hit
  IN
  /\ returned' = NoReturn
  /\ logged' = IF Accepted(p) THEN multi.logged ELSE <<>>
  /\ written' = <<>>
  /\ IF ~Accepted(p)
       THEN /\ emitted' = <<>>
            /\ threw' = FALSE
            /\ UNCHANGED <<responseCallbacks, queues, promise, res, timer,
                           microtasks>>
       ELSE /\ emitted' = multi.emitted
            /\ threw' = (multi.threw \/ sync.threw)
            /\ queues' = sync.queues
            /\ responseCallbacks' = sync.responseCallbacks
            /\ timer' = IF hit # 0 THEN Cleared(tm1, hit) ELSE tm1
            /\ IF hit # 0 /\ promise[hit] = "pending"
                 THEN /\ promise' = [promise EXCEPT ![hit] = "resolved"]
                      /\ res' = [res EXCEPT ![hit] = ResponseData(p)]
                      /\ microtasks' = Append(microtasks, hit)
                 ELSE UNCHANGED <<promise, res, microtasks>>

processResponsePacket(p) ==
  Dispatch(p) /\ UNCHANGED <<run, settings, phaseMode, sent>>

\* ------------------------------------------------------- command engine
InList(cbs, id) == \E k \in 1..Len(cbs) : cbs[k].id = id

\* resetState(): clears the deadline of every pending entry, empties the
\* pending list and drops the accumulators.
\* A reset that stops every deadline, also of entries no longer pending.
ResetAllTimers(tm, cbs) ==
  [i \in CallIds |-> IF tm[i].state = "armed"
                       THEN [tm[i] EXCEPT !.state = "cleared", !.left = 0]
                       ELSE tm[i]]

ResetTimers(tm, cbs) ==
  [i \in CallIds |-> IF InList(cbs, i)
                       THEN [tm[i] EXCEPT !.state = "cleared", !.left = 0]
                       ELSE tm[i]]

NoAccumulators == [a \in Addresses |-> NoQueues]

\* Time passes in ticks of 255 ms beyond the default timeout, which lasts
\* TimeoutTicks ticks.
Ticks(timeout) == TimeoutTicks + (timeout - DefaultResponseTimeout) \div 255

\* setTimeout(..., timeout): ms is the delay the timer is registered with.
Armed(timeout) ==
  [state |-> "armed", left |-> Ticks(timeout), full |-> Ticks(timeout),
   ms |-> timeout]

\* The command bytes of the Command table.
CommandCode(command) ==
  CASE command = "SET_READER_IDENTIFIER" -> 103
    [] command = "GET_READER_IDENTIFIER" -> 104
    [] command = "SET_RF_LINK_PROFILE" -> 105
    [] command = "GET_RF_LINK_PROFILE" -> 106
    [] command = "RESET" -> 112
    [] command = "SET_UART_BAUDRATE" -> 113
    [] command = "SET_READER_ADDRESS" -> 115
    [] command = "SET_WORK_ANTENNA" -> 116
    [] command = "GET_WORK_ANTENNA" -> 117
    [] command = "SET_FREQUENCY_REGION" -> 120
    [] command = "GET_RF_PORT_RETURN_LOSS" -> 126
    [] command = "INVENTORY" -> 128
    [] command = "READ" -> 129
    [] command = "WRITE" -> 130
    [] command = "LOCK" -> 131
    [] command = "KILL" -> 132
    [] command = "SET_ACCESS_EPC_MATCH" -> 133
    [] command = "GET_ACCESS_EPC_MATCH" -> 134
    [] command = "REAL_TIME_INVENTORY" -> 137
    [] command = "FAST_SWITCH_ANT_INVENTORY" -> 138
    [] command = "CUSTOMIZED_SESSION_TARGET_INVENTORY" -> 139
    [] command = "GET_INVENTORY_BUFFER" -> 144
    [] command = "GET_AND_RESET_INVENTORY_BUFFER" -> 145
    [] command = "WRITE_BLOCK" -> 148
    [] command = "TAG_MASK" -> 152
    [] command = "SET_MODULE_FUNCTION" -> 160
    [] command = "GET_MODULE_FUNCTION" -> 161
    [] command = "ISO18000_6B_INVENTORY" -> 176
    [] command = "ISO18000_6B_READ" -> 177
    [] command = "ISO18000_6B_WRITE" -> 178
    [] command = "ISO18000_6B_LOCK" -> 179
    [] command = "ISO18000_6B_QUERY_LOCK" -> 180

\* An array element that is no number (a string that does not parse):
\* it converts to NaN.
NaN == -1

\* Storing a number in a Uint8Array element (NaN stores 0).
ToUint8(v) == IF v = NaN THEN 0 ELSE v % 256

\* What the loop of iso1155LRC, uSum[0] -= byte, does to uSum over
\* bytes[lo..hi]: it subtracts sub (modulo 256), after storing 0 when one of
\* the elements is NaN (reset).  Computed by halves.
RECURSIVE Subtracted(_, _, _)
Subtracted(bytes, lo, hi) ==
  IF lo > hi THEN [reset |-> FALSE, sub |-> 0]
  ELSE IF lo = hi
    THEN IF bytes[lo] = NaN THEN [reset |-> TRUE, sub |-> 0]
         ELSE [reset |-> FALSE, sub |-> bytes[lo]]
  ELSE LET mid == (lo + hi) \div 2
           a == Subtracted(bytes, lo, mid)
           b == Subtracted(bytes, mid + 1, hi)
       IN IF b.reset THEN b
          ELSE [reset |-> a.reset, sub |-> a.sub + b.sub]

\* iso1155LRC(bytes), from a zero sum.
iso1155LRC(bytes) == ToUint8(0 - Subtracted(bytes, 1, Len(bytes)).sub)

\* Buffer.from(array): every element stored as a byte.
BufferFrom(array) == [k \in 1..Len(array) |-> ToUint8(array[k])]

\* The packet sendCommand builds and writes for command and data.
PacketData(command, data) ==
  <<PacketHeader, Len(data) + 3, rs485Address, CommandCode(command)>> \o data

PacketBytes(command, data) ==
  BufferFrom(Append(PacketData(command, data),
                    iso1155LRC(PacketData(command, data))))

\* sendCommand(command, data, timeout): writes the packet, creates the
\* promise and registers the pending entry with its deadline.  arg is the
\* argument of the public method that its continuation uses (0: none).
Written(command, arg) ==
  Append(sent, [command |-> command, address |-> rs485Address, arg |-> arg])

\* The entry put at the head of the pending list.
RegisteredFirst(command) ==
  <<[command |-> command, id |-> Len(sent) + 1]>> \o responseCallbacks

Registered(command) ==
  Append(responseCallbacks, [command |-> command, id |-> Len(sent) + 1])

Scheduled(timeout) == [timer EXCEPT ![Len(sent) + 1] = Armed(timeout)]

sendCommand(command, data, timeout, arg) ==
  /\ logged' = <<>>
  /\ written' = PacketBytes(command, data)
  /\ sent' = Written(command, arg)
  /\ promise' = [promise EXCEPT ![Len(sent) + 1] = "pending"]
  /\ responseCallbacks' = Registered(command)
  /\ timer' = Scheduled(timeout)

CanCall(command) ==
  /\ ~threw
  /\ command \in api
  /\ Len(sent) < budget
  /\ microtasks = <<>>

\* A public method that sends command and awaits the reply.
Call(command, data, timeout, arg) ==
  /\ CanCall(command)
  /\ sendCommand(command, data, timeout, arg)
  /\ emitted' = <<>>
  /\ returned' = NoReturn
  /\ threw' = FALSE
  /\ UNCHANGED <<run, settings, queues, res, microtasks>>

\* A public method that completes without sending: its argument check
\* threw (kind "RangeError") or it returned false.
Refused(command, kind) ==
  /\ CanCall(command)
  /\ returned' = Returned(0, kind, <<>>)
  /\ emitted' = <<>>
  /\ logged' = <<>>
  /\ written' = <<>>
  /\ threw' = FALSE
  /\ UNCHANGED <<run, settings, phaseMode, sent, responseCallbacks, queues,
                 promise, res, timer, microtasks>>

\* A check that lets every number pass.
ensureByteSizeUnchecked(num) == TRUE

\* ensureByteSize(num) returns (does not throw).
ensureByteSize(num) == ~(num < 0 \/ num > 255)

\* ensureArrayLength(array, minLen, maxLen) returns, for an array of len
\* elements.
ensureArrayLength(len, minLen, maxLen) == ~(len < minLen \/ len > maxLen)

\* A Uint8Array of len zero bytes.
Zeros(len) == [k \in 1..len |-> 0]

InventoryTimeout(repeat) == repeat * 255 + DefaultResponseTimeout

\* The session inventory's timeout with 255 ms for each repeat.
SessionInventoryTimeout255(repeat, powersave) ==
  repeat * 255 + (IF powersave # 0 THEN powersave * 64 ELSE 0)
  + DefaultResponseTimeout

\* powersave is 0 when the argument is omitted.
SessionInventoryTimeout(repeat, powersave) ==
  repeat * 64 + (IF powersave # 0 THEN powersave * 64 ELSE 0)
  + DefaultResponseTimeout

\* Arguments the model leaves fixed: a memory bank, a word count, the
\* antenna list of a fast switch inventory.
MemBank == 1
Antennas == <<0, 1, 1, 1, 2, 1, 3, 1>>

readTags(address) ==
  IF ensureByteSize(address)
    THEN /\ Call("READ", <<MemBank, address, 1>>, DefaultResponseTimeout, 0)
         /\ UNCHANGED phaseMode
    ELSE Refused("READ", "RangeError")

\* The data a caller writes: len bytes DE AD BE DE AD BE ...
DataBytes(len) == [k \in 1..len |-> <<222, 173, 190>>[((k - 1) % 3) + 1]]

\* writeTags sending the data as it is, with the whole words it holds.
writeTagsUnpadded(blockWrite, passwordLength, dataLength) ==
  LET command == IF blockWrite THEN "WRITE_BLOCK" ELSE "WRITE"
      wordData == DataBytes(dataLength)
  IN
  IF ensureArrayLength(passwordLength, 4, 4)
    THEN /\ Call(command,
                 Zeros(passwordLength) \o <<MemBank, 0, Len(wordData) \div 2>>
                   \o wordData,
                 DefaultResponseTimeout, 0)
         /\ UNCHANGED phaseMode
    ELSE Refused(command, "RangeError")

\* password is a Uint8Array of passwordLength bytes, data one of dataLength
\* bytes.
writeTags(blockWrite, passwordLength, dataLength) ==
  LET command == IF blockWrite THEN "WRITE_BLOCK" ELSE "WRITE"
      data == DataBytes(dataLength)
      wordData == IF Len(data) % 2 # 0 THEN data \o <<0>> ELSE data
  IN
  IF ensureArrayLength(passwordLength, 4, 4)
    THEN /\ Call(command,
                 Zeros(passwordLength) \o <<MemBank, 0, Len(wordData) \div 2>>
                   \o wordData,
                 DefaultResponseTimeout, 0)
         /\ UNCHANGED phaseMode
    ELSE Refused(command, "RangeError")

lockTags(passwordLength) ==
  IF ensureArrayLength(passwordLength, 4, 4)
    THEN /\ Call("LOCK", Zeros(passwordLength) \o <<MemBank, 0>>,
                 DefaultResponseTimeout, 0)
         /\ UNCHANGED phaseMode
    ELSE Refused("LOCK", "RangeError")

killTags(passwordLength) ==
  IF ensureArrayLength(passwordLength, 4, 4)
    THEN /\ Call("KILL", Zeros(passwordLength), DefaultResponseTimeout, 0)
         /\ UNCHANGED phaseMode
    ELSE Refused("KILL", "RangeError")

getInventoryBuffer(reset) ==
  /\ Call(IF reset THEN "GET_AND_RESET_INVENTORY_BUFFER"
          ELSE "GET_INVENTORY_BUFFER", <<>>, DefaultResponseTimeout, 0)
  /\ UNCHANGED phaseMode

getTagMasks ==
  Call("TAG_MASK", <<GET_MASKS>>, DefaultResponseTimeout, 0) /\ UNCHANGED phaseMode

setWorkingAntenna(antenna) ==
  /\ Call("SET_WORK_ANTENNA", <<antenna>>, DefaultResponseTimeout, antenna)
  /\ UNCHANGED phaseMode

getWorkingAntenna ==
  /\ Call("GET_WORK_ANTENNA", <<>>, DefaultResponseTimeout, 0)
  /\ UNCHANGED phaseMode

\* identifier is a Uint8Array.
setIdentifier(identifier) ==
  IF ensureArrayLength(Len(identifier), IdentifierLength, IdentifierLength)
    THEN /\ Call("SET_READER_IDENTIFIER", identifier,
                 DefaultResponseTimeout, identifier)
         /\ UNCHANGED phaseMode
    ELSE Refused("SET_READER_IDENTIFIER", "RangeError")

getIdentifier ==
  /\ Call("GET_READER_IDENTIFIER", <<>>, DefaultResponseTimeout, 0)
  /\ UNCHANGED phaseMode

setRFLinkProfile(profile) ==
  /\ Call("SET_RF_LINK_PROFILE", <<profile>>, DefaultResponseTimeout, profile)
  /\ UNCHANGED phaseMode

\* enum EPCMatch
EPCMatch == [ENABLED |-> 0, DISABLED |-> 1]

\* A clear that asks for the match to be enabled.
clearAccessEPCMatchEnabled ==
  /\ Call("SET_ACCESS_EPC_MATCH", <<EPCMatch.ENABLED>>,
          DefaultResponseTimeout, EPCMatch.DISABLED)
  /\ UNCHANGED phaseMode

clearAccessEPCMatch ==
  /\ Call("SET_ACCESS_EPC_MATCH", <<EPCMatch.DISABLED>>,
          DefaultResponseTimeout, EPCMatch.DISABLED)
  /\ UNCHANGED phaseMode

getAccessEPCMatch ==
  /\ Call("GET_ACCESS_EPC_MATCH", <<>>, DefaultResponseTimeout, 0)
  /\ UNCHANGED phaseMode

\* epc is a Uint8Array of epcLength bytes; EPCMatch.ENABLED is 0.
setAccessEPCMatch(epcLength) ==
  IF ensureArrayLength(epcLength, 1, 62)
    THEN /\ Call("SET_ACCESS_EPC_MATCH",
                 <<0, epcLength>> \o Zeros(epcLength), DefaultResponseTimeout, 0)
         /\ UNCHANGED phaseMode
    ELSE Refused("SET_ACCESS_EPC_MATCH", "RangeError")

\* uid is a Uint8Array of uidLength bytes; length is 1.
read6BTag(uidLength, address) ==
  IF /\ ensureByteSize(address)
     /\ ensureArrayLength(uidLength, ISO180006BUIDLength,
                          ISO180006BUIDLength)
    THEN /\ Call("ISO18000_6B_READ", Zeros(uidLength) \o <<address, 1>>,
                 DefaultResponseTimeout, 0)
         /\ UNCHANGED phaseMode
    ELSE Refused("ISO18000_6B_READ", "RangeError")

\* uid is a Uint8Array of uidLength bytes; length is 1 and data is one
\* byte.
write6BTag(uidLength, address) ==
  IF /\ ensureByteSize(address)
     /\ ensureArrayLength(uidLength, ISO180006BUIDLength,
                          ISO180006BUIDLength)
    THEN /\ Call("ISO18000_6B_READ", Zeros(uidLength) \o <<address, 1, 0>>,
                 DefaultResponseTimeout, 0)
         /\ UNCHANGED phaseMode
    ELSE Refused("ISO18000_6B_READ", "RangeError")

lock6BTagByte(uidLength, address) ==
  IF /\ ensureByteSize(address)
     /\ ensureArrayLength(uidLength, ISO180006BUIDLength,
                          ISO180006BUIDLength)
    THEN /\ Call("ISO18000_6B_READ", Zeros(uidLength) \o <<address>>,
                 DefaultResponseTimeout, 0)
         /\ UNCHANGED phaseMode
    ELSE Refused("ISO18000_6B_READ", "RangeError")

queryLock6BTagByte(uidLength, address) ==
  IF /\ ensureByteSize(address)
     /\ ensureArrayLength(uidLength, ISO180006BUIDLength,
                          ISO180006BUIDLength)
    THEN /\ Call("ISO18000_6B_READ", Zeros(uidLength) \o <<address>>,
                 DefaultResponseTimeout, 0)
         /\ UNCHANGED phaseMode
    ELSE Refused("ISO18000_6B_READ", "RangeError")

\* enum FrequencyRegion.
FCC == 1
ETSI == 2
CHN == 3

\* An optional argument that was omitted.
undefined == -2

\* startFreqIdx ??= ...
DefaultStartFreqIdx(region) ==
  IF region = FCC THEN 7 ELSE IF region = ETSI THEN 0 ELSE 43

\* endFreqIdx ??= ...
DefaultEndFreqIdx(region) ==
  IF region = FCC THEN 59 ELSE IF region = ETSI THEN 6 ELSE 53

\* The indexes after the defaults, the end index left as it is.
FrequencyBandUnadjusted(region, startFreqIdx, endFreqIdx) ==
  <<region,
    IF startFreqIdx = undefined
      THEN DefaultStartFreqIdx(region) ELSE startFreqIdx,
    IF endFreqIdx = undefined THEN DefaultEndFreqIdx(region) ELSE endFreqIdx>>

\* The data of the command: the indexes after the defaults and the
\* adjustment of an end index below the start index.
FrequencyBand(region, startFreqIdx, endFreqIdx) ==
  LET start == IF startFreqIdx = undefined
                 THEN DefaultStartFreqIdx(region) ELSE startFreqIdx
      end == IF endFreqIdx = undefined
               THEN DefaultEndFreqIdx(region) ELSE endFreqIdx
  IN <<region, start, IF end < start THEN start ELSE end>>

setRegionFrequencyBand(region, startFreqIdx, endFreqIdx) ==
  /\ Call("SET_FREQUENCY_REGION",
          FrequencyBand(region, startFreqIdx, endFreqIdx),
          DefaultResponseTimeout, 0)
  /\ UNCHANGED phaseMode

getRFLinkProfile ==
  /\ Call("GET_RF_LINK_PROFILE", <<>>, DefaultResponseTimeout, 0)
  /\ UNCHANGED phaseMode

getReturnLoss ==
  /\ Call("GET_RF_PORT_RETURN_LOSS", <<0>>, DefaultResponseTimeout, 0)
  /\ UNCHANGED phaseMode

\* enum BaudRate: BD_38400 = 3, BD_115200 = 4.
BaudRate == {3, 4}

\* BaudRate[baudRate]: the name of a member (a string), or undefined.
\* As a packet byte the name is no number.
setBaudRate(rate) ==
  IF rate \in BaudRate
    THEN /\ Call("SET_UART_BAUDRATE", <<NaN>>, DefaultResponseTimeout, rate)
         /\ UNCHANGED phaseMode
    ELSE Refused("SET_UART_BAUDRATE", "false")

setAddress(address) ==
  IF ensureByteSize(address)
    THEN /\ Call("SET_READER_ADDRESS", <<address>>, DefaultResponseTimeout, address)
         /\ UNCHANGED phaseMode
    ELSE Refused("SET_READER_ADDRESS", "RangeError")

setModuleFunction(moduleFunction) ==
  /\ Call("SET_MODULE_FUNCTION", <<moduleFunction>>, DefaultResponseTimeout,
          moduleFunction)
  /\ UNCHANGED phaseMode

getModuleFunction ==
  /\ Call("GET_MODULE_FUNCTION", <<>>, DefaultResponseTimeout, 0)
  /\ UNCHANGED phaseMode

start6BRealTimeInventory ==
  Call("ISO18000_6B_INVENTORY", <<>>, DefaultResponseTimeout, 0) /\ UNCHANGED phaseMode

startBufferedInventory(repeat) ==
  IF ensureByteSize(repeat)
    THEN /\ Call("INVENTORY", <<repeat>>, InventoryTimeout(repeat), 0)
         /\ UNCHANGED phaseMode
    ELSE Refused("INVENTORY", "RangeError")

startRealTimeInventory(repeat) ==
  IF ensureByteSize(repeat)
    THEN /\ Call("REAL_TIME_INVENTORY", <<repeat>>,
                 InventoryTimeout(repeat), 0)
         /\ phaseMode' = "OFF"
    ELSE Refused("REAL_TIME_INVENTORY", "RangeError")

\* A session inventory that ignores its phase argument.
startSessionInventoryNoPhase(repeat, phase, powersave) ==
  IF ensureByteSize(repeat) /\ (powersave # 0 => ensureByteSize(powersave))
    THEN /\ Call("CUSTOMIZED_SESSION_TARGET_INVENTORY", <<0, 0, repeat>>,
                 SessionInventoryTimeout(repeat, powersave), 0)
         /\ phaseMode' = "OFF"
    ELSE Refused("CUSTOMIZED_SESSION_TARGET_INVENTORY", "RangeError")

\* phase is "none" when the argument is omitted; select is omitted, so
\* neither phase nor powersave is sent; session and target are 0.
startSessionInventory(repeat, phase, powersave) ==
  IF ensureByteSize(repeat) /\ (powersave # 0 => ensureByteSize(powersave))
    THEN /\ Call("CUSTOMIZED_SESSION_TARGET_INVENTORY", <<0, 0, repeat>>,
                 SessionInventoryTimeout(repeat, powersave), 0)
         /\ phaseMode' = IF phase = "none" THEN "OFF" ELSE phase
    ELSE Refused("CUSTOMIZED_SESSION_TARGET_INVENTORY", "RangeError")

\* restInterval is 0; session and target are omitted.
startFastSwitchAntennaInventory(repeat, phase) ==
  IF ensureByteSize(repeat)
    THEN /\ Call("FAST_SWITCH_ANT_INVENTORY", Antennas \o <<0, repeat>>,
                 InventoryTimeout(repeat), 0)
         /\ phaseMode' = IF phase = "none" THEN "OFF" ELSE phase
    ELSE Refused("FAST_SWITCH_ANT_INVENTORY", "RangeError")

\* The repeat and powersave arguments session inventories are started
\* with: no repeat and no powersave, the most repeats with powersave 2, and
\* a repeat and a powersave that are no bytes.
SessionArguments == {<<0, 0>>, <<MaxRepeat, 2>>, <<256, 0>>, <<0, 256>>}

\* reset(): sendCommand(RESET) without awaiting it, then resetState().
reset ==
  /\ CanCall("RESET")
  /\ logged' = <<>>
  /\ written' = PacketBytes("RESET", <<>>)
  /\ sent' = Written("RESET", 0)
  /\ promise' = [promise EXCEPT ![Len(sent) + 1] = "pending"]
  /\ timer' = ResetTimers(Scheduled(DefaultResponseTimeout), Registered("RESET"))
  /\ responseCallbacks' = <<>>
  /\ queues' = NoAccumulators
  /\ returned' = Returned(Len(sent) + 1, "void", <<>>)
  /\ emitted' = <<>>
  /\ threw' = FALSE
  /\ UNCHANGED <<run, settings, phaseMode, res, microtasks>>

\* parser.on("error", resetState)
parserError ==
  /\ ~threw
  /\ responseCallbacks # <<>> \/ \E a \in Addresses : queues[a].defined
  /\ timer' = ResetTimers(timer, responseCallbacks)
  /\ responseCallbacks' = <<>>
  /\ queues' = NoAccumulators
  /\ emitted' = <<>>
  /\ logged' = <<>>
  /\ written' = <<>>
  /\ returned' = NoReturn
  /\ threw' = FALSE
  /\ UNCHANGED <<run, settings, phaseMode, sent, promise, res,
                 microtasks>>

\* The continuation of readTags, writeTags, lockTags, killTags,
\* getInventoryBuffer and getTagMasks: hand the accumulator to the caller
\* and empty it.
DrainThen(id, name) ==
  LET r == res[id] IN
  /\ UNCHANGED <<responseCallbacks, timer, settings>>
  /\ IF ~queues[r.address].defined
       THEN /\ returned' = Returned(id, "TypeError", <<>>)
            /\ UNCHANGED queues
       ELSE /\ queues' = [queues EXCEPT ![r.address][name] = <<>>]
            /\ returned' = IF r.success \/ name = "masks"
                             THEN Returned(id, "records",
                                           queues[r.address][name])
                             ELSE Returned(id, "false", <<>>)

\* A continuation that resets the state whatever the reply.
ResetThenAlways(id) ==
  LET r == res[id] IN
  /\ returned' = Returned(id, IF r.success THEN "true" ELSE "false", <<>>)
  /\ UNCHANGED rs485Address
  /\ baudRate' = IF sent[id].command = "SET_UART_BAUDRATE"
                   THEN sent[id].arg ELSE baudRate
  /\ timer' = ResetTimers(timer, responseCallbacks)
  /\ responseCallbacks' = <<>>
  /\ queues' = NoAccumulators

\* The continuation of setBaudRate and setModuleFunction.
ResetThen(id) ==
  LET r == res[id] IN
  /\ returned' = Returned(id, IF r.success THEN "true" ELSE "false", <<>>)
  /\ UNCHANGED rs485Address
  /\ IF r.success
       THEN /\ baudRate' = IF sent[id].command = "SET_UART_BAUDRATE"
                             THEN sent[id].arg ELSE baudRate
            /\ timer' = ResetTimers(timer, responseCallbacks)
            /\ responseCallbacks' = <<>>
            /\ queues' = NoAccumulators
       ELSE UNCHANGED <<baudRate, responseCallbacks, timer, queues>>

\* A continuation that takes over the new address whatever the reply.
AddressThenAlways(id) ==
  LET r == res[id] IN
  /\ returned' = Returned(id, IF r.success THEN "true" ELSE "false", <<>>)
  /\ rs485Address' = sent[id].arg
  /\ UNCHANGED <<baudRate, responseCallbacks, timer, queues>>

\* The continuation of setAddress.
AddressThen(id) ==
  LET r == res[id] IN
  /\ returned' = Returned(id, IF r.success THEN "true" ELSE "false", <<>>)
  /\ rs485Address' = IF r.success THEN sent[id].arg ELSE rs485Address
  /\ UNCHANGED <<baudRate, responseCallbacks, timer, queues>>

\* The continuation of the start...Inventory methods.
InventoryThen(id) ==
  LET r == res[id] IN
  /\ returned' = Returned(id,
       IF ~r.success THEN "false"
       ELSE IF r.command = "ISO18000_6B_INVENTORY"
               \/ r.datalen >= (IF r.command = "INVENTORY" THEN 9 ELSE 7)
         THEN "result"
       ELSE "RangeError", <<>>)
  /\ UNCHANGED <<responseCallbacks, timer, queues, settings>>

\* The continuation of setWorkingAntenna.
SuccessThen(id) ==
  LET r == res[id] IN
  /\ returned' = Returned(id, IF r.success THEN "true" ELSE "false", <<>>)
  /\ UNCHANGED <<responseCallbacks, timer, queues, settings>>

\* res.data[0]
First(data) == IF data = <<>> THEN undefined ELSE data[1]

\* The continuation of getRFLinkProfile, getReturnLoss and read6BTag: the
\* value returned is the first byte of a reply modelled byte by byte.
ValueThen(id) ==
  LET r == res[id] IN
  /\ returned' = Returned(id, IF r.success THEN "result" ELSE "false",
                          IF r.success /\ r.data # <<>>
                            THEN <<r.data[1]>> ELSE <<>>)
  /\ UNCHANGED <<responseCallbacks, timer, queues, settings>>

\* The continuation of getIdentifier (res.data), of getWorkingAntenna and
\* getModuleFunction (res.data[0]) and of getAccessEPCMatch (the status
\* and, with status ENABLED, the length and the EPC).
GetThen(id) ==
  LET r == res[id]
      command == sent[id].command
  IN
  /\ returned' =
       Returned(id, "result",
                IF command = "GET_READER_IDENTIFIER" THEN r.data
                ELSE IF command = "GET_ACCESS_EPC_MATCH"
                          /\ First(r.data) = EPCMatch.ENABLED
                  THEN <<First(r.data),
                         IF Len(r.data) > 1 THEN r.data[2] ELSE undefined>>
                       \o SubSeq(r.data, 3, Len(r.data))
                ELSE <<First(r.data)>>)
  /\ UNCHANGED <<responseCallbacks, timer, queues, settings>>

\* The promise job queued by resolve(): runs the .then continuation of the
\* method that sent the command.
Then ==
  /\ ~threw
  /\ microtasks # <<>>
  /\ LET id == Head(microtasks)
         command == sent[id].command
     IN
     /\ microtasks' = Tail(microtasks)
     /\ IF QueueOf(command) # "none" THEN DrainThen(id, QueueOf(command))
        ELSE IF command \in {"SET_UART_BAUDRATE", "SET_MODULE_FUNCTION"}
          THEN ResetThen(id)
        ELSE IF command = "SET_READER_ADDRESS" THEN AddressThen(id)
        ELSE IF command \in SightingCommands
                             \cup {"ISO18000_6B_INVENTORY", "INVENTORY"}
          THEN InventoryThen(id)
        ELSE IF command \in {"GET_RF_LINK_PROFILE",
                             "GET_RF_PORT_RETURN_LOSS", "ISO18000_6B_READ"}
          THEN ValueThen(id)
        ELSE IF command \in {"GET_READER_IDENTIFIER", "GET_WORK_ANTENNA",
                             "GET_ACCESS_EPC_MATCH", "GET_MODULE_FUNCTION"}
          THEN GetThen(id)
        ELSE SuccessThen(id)
  /\ emitted' = <<>>
  /\ logged' = <<>>
  /\ written' = <<>>
  /\ threw' = FALSE
  /\ res' = [res EXCEPT ![Head(microtasks)] = NoRes]
  /\ UNCHANGED <<run, phaseMode, sent, promise>>

\* ------------------------------------------------------------- timers
AnyArmed == \E i \in CallIds : timer[i].state = "armed"

\* One tick of time passes.
Tick ==
  /\ ~threw
  /\ microtasks = <<>>
  /\ AnyArmed
  /\ \A i \in CallIds : timer[i].state = "armed" => timer[i].left > 0
  /\ timer' = [i \in CallIds |->
                 IF timer[i].state = "armed"
                   THEN [timer[i] EXCEPT !.left = @ - 1] ELSE timer[i]]
  /\ emitted' = <<>>
  /\ logged' = <<>>
  /\ written' = <<>>
  /\ returned' = NoReturn
  /\ threw' = FALSE
  /\ UNCHANGED <<run, settings, phaseMode, sent, responseCallbacks,
                 queues, promise, res, microtasks>>

\* The setTimeout callback of sendCommand.
Timeout(id) ==
  /\ ~threw
  /\ microtasks = <<>>
  /\ timer[id].state = "armed"
  /\ timer[id].left = 0
  /\ timer' = [timer EXCEPT ![id].state = "fired"]
  /\ IF promise[id] # "pending"
       THEN UNCHANGED promise /\ returned' = NoReturn
     ELSE IF sent[id].command = "RESET"
       THEN /\ promise' = [promise EXCEPT ![id] = "resolved"]
            /\ returned' = NoReturn
     ELSE /\ promise' = [promise EXCEPT ![id] = "rejected"]
          /\ returned' = Returned(id, "Timeout", <<>>)
  /\ emitted' = <<>>
  /\ logged' = <<>>
  /\ written' = <<>>
  /\ threw' = FALSE
  /\ UNCHANGED <<run, settings, phaseMode, sent, responseCallbacks,
                 queues, res, microtasks>>

\* ------------------------------------------------------------- reader
\* Number of records held by the accumulators.
Holding(a) ==
  Len(queues[a].masks) + Len(queues[a].inventory) + Len(queues[a].read)
  + Len(queues[a].write) + Len(queues[a].lock) + Len(queues[a].kill)

Accumulated == Holding(1) + Holding(2)

Deliver(p) ==
  /\ ~threw
  /\ p.command \in api \cup {"UNKNOWN"}
  /\ p.address \in readers
  /\ IsRecord(p) => Accumulated < MaxQueue
  /\ processResponsePacket(p)

\* ------------------------------------------------------------- system
Start(configurations) ==
  /\ \E c \in configurations :
       api = c[1] /\ rs485Address = c[2] /\ readers = c[3] /\ budget = c[4]
  /\ baudRate = 115200
  /\ phaseMode = "OFF"
  /\ sent = <<>>
  /\ responseCallbacks = <<>>
  /\ queues = NoAccumulators
  /\ promise = [i \in CallIds |-> "none"]
  /\ res = [i \in CallIds |-> NoRes]
  /\ timer = [i \in CallIds |-> NoTimer]
  /\ microtasks = <<>>
  /\ returned = NoReturn
  /\ emitted = <<>>
  /\ written = <<>>
  /\ threw = FALSE
  /\ logged = <<>>

\* No frame reader of main.ts runs next to the command engine.
NoStream ==
  /\ inbound = <<>>
  /\ cursor = 0
  /\ dataBuf = <<>>
  /\ resolvers = <<>>
  /\ response_queue = <<>>
  /\ received = <<>>
  /\ tagData = <<>>
  /\ tag = <<>>
  /\ device = <<>>

Init == Start(Configurations) /\ NoStream

Next ==
  \/ \E address \in {0, 256} : readTags(address)
  \/ \E blockWrite \in BOOLEAN, passwordLength \in {3, 4},
        dataLength \in {3, 246} :
       writeTags(blockWrite, passwordLength, dataLength)
  \/ \E passwordLength \in {3, 4} : lockTags(passwordLength)
  \/ \E passwordLength \in {3, 4} : killTags(passwordLength)
  \/ \E r \in BOOLEAN : getInventoryBuffer(r)
  \/ getTagMasks
  \/ setWorkingAntenna(0)
  \/ \E identifierLength \in {11, 12} :
       setIdentifier(Zeros(identifierLength))
  \/ \E epcLength \in {0, 1, 63} : setAccessEPCMatch(epcLength)
  \/ \E uidLength \in {7, 8}, address \in {0, 256} :
       read6BTag(uidLength, address)
  \/ getRFLinkProfile
  \/ getReturnLoss
  \/ \E rate \in {3, 38400} : setBaudRate(rate)
  \/ \E address \in {2, 256} : setAddress(address)
  \/ setModuleFunction(0)
  \/ start6BRealTimeInventory
  \/ \E repeat \in 0..MaxRepeat \cup {256} : startBufferedInventory(repeat)
  \/ \E repeat \in 0..MaxRepeat \cup {256} : startRealTimeInventory(repeat)
  \/ \E a \in SessionArguments, phase \in {"none"} \cup PhaseModes :
       startSessionInventory(a[1], phase, a[2])
  \/ \E repeat \in 0..MaxRepeat \cup {256},
        phase \in {"none"} \cup PhaseModes :
       startFastSwitchAntennaInventory(repeat, phase)
  \/ reset
  \/ parserError
  \/ \E p \in WorkloadPackets[api] : Deliver(p)
  \/ Then
  \/ Tick
  \/ \E id \in CallIds : Timeout(id)

Spec == Init /\ [][Next]_vars

\* ------------------------------------------- tag records that disagree
\* The runs in which the reader sends tag records and sightings whose PC,
\* EPC and CRC fields disagree, next to the packets of the other runs.
TagWorkloads ==
  { {"READ"}, {"WRITE", "WRITE_BLOCK"}, {"LOCK", "KILL"},
    {"GET_INVENTORY_BUFFER", "GET_AND_RESET_INVENTORY_BUFFER"},
    {"REAL_TIME_INVENTORY", "CUSTOMIZED_SESSION_TARGET_INVENTORY"} }

TagConfigurations == { <<w, 1, {1}, MaxCalls - 1>> : w \in TagWorkloads }

TagPackets == [w \in TagWorkloads |-> Packets(w) \cup BadTagPackets(w)]

TagInit == Start(TagConfigurations) /\ NoStream

TagNext ==
  \/ \E address \in {0, 256} : readTags(address)
  \/ \E blockWrite \in BOOLEAN, passwordLength \in {3, 4},
        dataLength \in {3, 246} :
       writeTags(blockWrite, passwordLength, dataLength)
  \/ \E passwordLength \in {3, 4} : lockTags(passwordLength)
  \/ \E passwordLength \in {3, 4} : killTags(passwordLength)
  \/ \E r \in BOOLEAN : getInventoryBuffer(r)
  \/ \E repeat \in 0..MaxRepeat \cup {256} : startRealTimeInventory(repeat)
  \/ \E a \in SessionArguments, phase \in {"none"} \cup PhaseModes :
       startSessionInventory(a[1], phase, a[2])
  \/ \E p \in TagPackets[api] : Deliver(p)
  \/ Then
  \/ Tick
  \/ \E id \in CallIds : Timeout(id)

TagSpec == TagInit /\ [][TagNext]_vars

\* ------------------------------------- frequency band and ISO 18000-6B
\* The runs of an application that sets the frequency band next to a
\* buffered inventory, and of one that accesses ISO 18000-6B tags.
SettingsWorkloads ==
  { {"SET_FREQUENCY_REGION", "INVENTORY"}, {"ISO18000_6B_READ"} }

SettingsConfigurations ==
  { <<w, 1, {1}, MaxCalls - 1>> : w \in SettingsWorkloads }

SettingsPackets == [w \in SettingsWorkloads |-> Packets(w)]

\* Indexes of the FrequencyTable, and an omitted index.
FrequencyArguments == {undefined, 0, 6, 7, 59}

SettingsInit == Start(SettingsConfigurations) /\ NoStream

SettingsNext ==
  \/ \E region \in {FCC, ETSI, CHN},
        startFreqIdx \in FrequencyArguments,
        endFreqIdx \in FrequencyArguments :
       setRegionFrequencyBand(region, startFreqIdx, endFreqIdx)
  \/ \E repeat \in 0..MaxRepeat \cup {256} : startBufferedInventory(repeat)
  \/ \E uidLength \in {7, 8}, address \in {0, 256} :
       read6BTag(uidLength, address)
  \/ \E uidLength \in {7, 8}, address \in {0, 256} :
       write6BTag(uidLength, address)
  \/ \E uidLength \in {7, 8}, address \in {0, 256} :
       lock6BTagByte(uidLength, address)
  \/ \E uidLength \in {7, 8}, address \in {0, 256} :
       queryLock6BTagByte(uidLength, address)
  \/ \E p \in SettingsPackets[api] : Deliver(p)
  \/ Then
  \/ Tick
  \/ \E id \in CallIds : Timeout(id)

SettingsSpec == SettingsInit /\ [][SettingsNext]_vars

\* ------------------------------------------------ sightings, byte by byte
RSSIOffset == -129

\* a & b on non-negative integers.
RECURSIVE BitAnd(_, _)
BitAnd(a, b) ==
  IF a = 0 \/ b = 0 THEN 0
  ELSE (a % 2) * (b % 2) + 2 * BitAnd(a \div 2, b \div 2)

\* a >> n
ShiftRight(a, n) == a \div 2 ^ n

\* data.readUInt16BE(offset)
readUInt16BE(data, offset) == data[offset + 1] * 256 + data[offset + 2]

\* data.at(index), for an index within the buffer.
at(data, index) ==
  IF index < 0 THEN data[Len(data) + index + 1] ELSE data[index + 1]

\* data.subarray(start, end) for start >= 0: a negative end counts from
\* the end of the buffer.
subarray(data, start, end) ==
  LET last == IF end < 0 THEN Len(data) + end ELSE end IN
  SubSeq(data, start + 1, IF last > Len(data) THEN Len(data) ELSE last)

\* The tag of a sighting parsed without regard to the phase mode.
InventoriedTagNoPhase(data, mode) ==
  [pc |-> readUInt16BE(data, 1),
   epc |-> subarray(data, 3, -1),
   rssi |-> BitAnd(at(data, -1), 127) + RSSIOffset,
   antenna |-> BitAnd(data[1], 3) + 4 * ShiftRight(at(data, -1), 7),
   frequency |-> ShiftRight(BitAnd(data[1], 252), 2)]

\* The tag processCommandInventory builds from the payload of a sighting.
InventoriedTag(data, mode) ==
  LET phaseOffset == IF mode = "ON" THEN -2 ELSE 0
      pc == readUInt16BE(data, 1)
      epc == subarray(data, 3, -1 + phaseOffset)
      base == [pc |-> pc,
               epc |-> epc,
               rssi |-> BitAnd(at(data, -1 + phaseOffset), 127) + RSSIOffset,
               antenna |-> BitAnd(data[1], 3)
                           + 4 * ShiftRight(at(data, -1 + phaseOffset), 7),
               frequency |-> ShiftRight(BitAnd(data[1], 252), 2)]
  IN IF phaseOffset # 0
       THEN [phaseAngle |-> readUInt16BE(data, Len(data) - 2)] @@ base
       ELSE base

\* The payloads of the model: the antenna and frequency byte, the PC, an
\* EPC, the RSSI byte and, from a reader in phase mode, two phase bytes.
\* Each is longer than 7 bytes, as the dispatcher requires of a sighting.
Payloads ==
  { <<b>> \o pc \o epc \o tail :
      b \in {0, 29, 255},
      pc \in {<<0, 0>>, <<18, 52>>},
      epc \in {<<226, 0, 17, 34>>, <<226, 0, 17, 34, 51, 68>>},
      tail \in { <<r>> : r \in {0, 69, 127, 128, 255} }
               \cup { <<r, a, 1>> : r \in {0, 69, 127, 128, 255},
                                   a \in {0, 255} } }

SightingConfigurations ==
  { <<{"REAL_TIME_INVENTORY", "CUSTOMIZED_SESSION_TARGET_INVENTORY"}, 1, {1},
      MaxCalls - 1>> }

\* A sighting of command arrives with the payload of the run: the handler
\* refreshes the deadline of a matching front entry and emits the tag.
Sighting(command) ==
  /\ ~threw
  /\ command \in api
  /\ Len(tagData) > 7
  /\ tag' = InventoriedTag(tagData, phaseMode)
  /\ emitted' = <<"tagFound">>
  /\ timer' = IF FrontMatches(responseCallbacks, command)
                THEN Refreshed(timer, responseCallbacks) ELSE timer
  /\ returned' = NoReturn
  /\ logged' = <<>>
  /\ written' = <<>>
  /\ threw' = FALSE
  /\ UNCHANGED <<api, budget, readers, frame, tagData, device, settings,
                 phaseMode, sent, responseCallbacks, queues, promise, res,
                 microtasks>>

SightingInit ==
  /\ Start(SightingConfigurations)
  /\ inbound = <<>>
  /\ cursor = 0
  /\ dataBuf = <<>>
  /\ resolvers = <<>>
  /\ response_queue = <<>>
  /\ received = <<>>
  /\ tagData \in Payloads
  /\ tag = <<>>
  /\ device = <<>>

SightingNext ==
  \/ \E repeat \in 0..MaxRepeat \cup {256} : startRealTimeInventory(repeat)
  \/ \E a \in SessionArguments, phase \in {"none"} \cup PhaseModes :
       startSessionInventory(a[1], phase, a[2])
  \/ \E command \in SightingCommands : Sighting(command)
  \/ Tick
  \/ \E id \in CallIds : Timeout(id)

SightingSpec == SightingInit /\ [][SightingNext]_vars

\* ------------------------------------ a reader that stores and echoes
\* The runs of an application that sets a value of the reader and reads it
\* back.  The reader stores the value a set command carries, answers it
\* with SUCCESS, and answers the matching get command with what it stored.
\* The serial line delivers every packet, in order.
EchoWorkloads ==
  { {"SET_READER_IDENTIFIER", "GET_READER_IDENTIFIER"},
    {"SET_WORK_ANTENNA", "GET_WORK_ANTENNA"},
    {"SET_RF_LINK_PROFILE", "GET_RF_LINK_PROFILE"},
    {"SET_MODULE_FUNCTION", "GET_MODULE_FUNCTION"},
    {"SET_ACCESS_EPC_MATCH", "GET_ACCESS_EPC_MATCH"} }

EchoConfigurations == { <<w, 1, {1}, MaxCalls>> : w \in EchoWorkloads }

\* Identifiers of 12 bytes: zeros, the bytes of a reply packet, 0xFF.
Identifiers ==
  { Zeros(IdentifierLength),
    <<160, 4, 1, 104, 16, 17, 0, 255, 160, 15, 1, 104>>,
    [k \in 1..IdentifierLength |-> 255] }

\* The reader as it leaves the factory.
Factory ==
  [identifier |-> Zeros(IdentifierLength), antenna |-> 0, profile |-> 209,
   function |-> 0, match |-> <<EPCMatch.DISABLED>>, served |-> 0,
   wire |-> <<>>]

\* The command with the code of a packet.
CommandName(code) ==
  IF \E c \in Command : CommandCode(c) = code
    THEN CHOOSE c \in Command : CommandCode(c) = code
    ELSE "UNKNOWN"

\* A packet from the reader at address, with its check byte.
Reply(address, code, data) ==
  LET message == <<PacketHeader, Len(data) + 3, address, code>> \o data IN
  Append(message, iso1155LRC(message))

\* What the reader stores for a request, and what it answers.
Stored(flash, command, data) ==
  CASE command = "SET_READER_IDENTIFIER" -> [flash EXCEPT !.identifier = data]
    [] command = "SET_WORK_ANTENNA" -> [flash EXCEPT !.antenna = data[1]]
    [] command = "SET_RF_LINK_PROFILE" -> [flash EXCEPT !.profile = data[1]]
    [] command = "SET_MODULE_FUNCTION" -> [flash EXCEPT !.function = data[1]]
    [] command = "SET_ACCESS_EPC_MATCH" -> [flash EXCEPT !.match = data]
    [] OTHER -> flash

Answer(flash, command) ==
  CASE command = "GET_READER_IDENTIFIER" -> flash.identifier
    [] command = "GET_WORK_ANTENNA" -> <<flash.antenna>>
    [] command = "GET_RF_LINK_PROFILE" -> <<flash.profile>>
    [] command = "GET_MODULE_FUNCTION" -> <<flash.function>>
    [] command = "GET_ACCESS_EPC_MATCH" -> flash.match
    [] OTHER -> <<SUCCESS>>

\* The reader has received every request written so far.
Idle == device.served = Len(sent)

\* The reader receives the request just written, stores what it carries
\* and puts its reply on the line.
Serve ==
  /\ ~threw
  /\ device.served < Len(sent)
  /\ LET command == CommandName(written[4])
         data == SubSeq(written, 5, Len(written) - 1)
         flash == Stored(device, command, data)
     IN device' = [flash EXCEPT
                     !.served = @ + 1,
                     !.wire = Append(@, Reply(written[3], written[4],
                                              Answer(flash, command)))]
  /\ UNCHANGED <<api, budget, readers, frame, sighting, settings, phaseMode,
                 sent, responseCallbacks, queues, promise, res, timer,
                 microtasks, returned, emitted, written, threw, logged>>

\* The packet as processResponsePacket reads it: its integrity, address,
\* command and payload.
FromBytes(packet) ==
  LET length == packet[2]
      dlen == Len(packet) - 5
      data == SubSeq(packet, 5, Len(packet) - 1)
      integrity ==
        IF length < 4 THEN "short"
        ELSE IF Len(packet) # length + 2 THEN "badlength"
        ELSE IF packet[Len(packet)]
                  # iso1155LRC(SubSeq(packet, 1, Len(packet) - 1))
          THEN "badlrc"
        ELSE "ok"
  IN [Packet(integrity, packet[3], CommandName(packet[4]), dlen,
             IF dlen > 0 THEN data[1] ELSE 0,
             IF dlen > 1 THEN data[2] ELSE 0)
        EXCEPT !.data = data]

\* The next reply on the line reaches the application.
Receive ==
  /\ ~threw
  /\ device.wire # <<>>
  /\ Dispatch(FromBytes(Head(device.wire)))
  /\ device' = [device EXCEPT !.wire = Tail(@)]
  /\ UNCHANGED <<api, budget, readers, frame, sighting, settings, phaseMode,
                 sent>>

\* The last call was the set method of command, and it has just returned
\* true.
Follows(command) ==
  /\ sent # <<>>
  /\ sent[Len(sent)].command = command
  /\ returned = Returned(Len(sent), "true", <<>>)

EchoInit ==
  /\ Start(EchoConfigurations)
  /\ inbound = <<>>
  /\ cursor = 0
  /\ dataBuf = <<>>
  /\ resolvers = <<>>
  /\ response_queue = <<>>
  /\ received = <<>>
  /\ tagData = <<>>
  /\ tag = <<>>
  /\ device = Factory

EchoNext ==
  \/ Serve
  \/ \E identifier \in Identifiers : Idle /\ setIdentifier(identifier)
  \/ Idle /\ Follows("SET_READER_IDENTIFIER") /\ getIdentifier
  \/ \E antenna \in {0, 3} : Idle /\ setWorkingAntenna(antenna)
  \/ Idle /\ Follows("SET_WORK_ANTENNA") /\ getWorkingAntenna
  \/ \E profile \in {208, 211} : Idle /\ setRFLinkProfile(profile)
  \/ Idle /\ Follows("SET_RF_LINK_PROFILE") /\ getRFLinkProfile
  \/ \E moduleFunction \in {0, 1} :
       Idle /\ setModuleFunction(moduleFunction)
  \/ Idle /\ Follows("SET_MODULE_FUNCTION") /\ getModuleFunction
  \/ Idle /\ setAccessEPCMatch(2)
  \/ Idle /\ clearAccessEPCMatch
  \/ /\ Idle
     /\ Follows("SET_ACCESS_EPC_MATCH")
     /\ sent[Len(sent)].arg = EPCMatch.DISABLED
     /\ getAccessEPCMatch
  \/ Idle /\ Receive
  \/ Idle /\ Then
  \/ \E id \in CallIds : Idle /\ Timeout(id)

EchoSpec == EchoInit /\ [][EchoNext]_vars

\* ------------------------------------------------------------- claims
Waiting(id) == promise[id] = "pending"

Several(cbs, command) ==
  \E j, k \in 1..Len(cbs) :
    j # k /\ cbs[j].command = command /\ cbs[k].command = command

\* The call sent first among the entries of cbs registered for command.
OldestId(cbs, command) ==
  CHOOSE id \in CallIds :
    /\ InList(cbs, id) /\ sent[id].command = command
    /\ \A j \in CallIds :
         InList(cbs, j) /\ sent[j].command = command => id <= j

\* The oldest call of command that is waiting in the pending list (0: none).
OldestWaiting(command) ==
  LET ids == { id \in CallIds :
                 /\ InList(responseCallbacks, id) /\ Waiting(id)
                 /\ sent[id].command = command }
  IN IF ids = {} THEN 0
     ELSE CHOOSE id \in ids : \A j \in ids : id <= j

\* Replies of one payload byte: every one that passes the checks reaches the
\* resolve loop.
PlainReplies ==
  { p \in AllPackets :
      p.integrity = "ok" /\ p.dlen = 1 /\ p.command \in Command }

\* C1: when the pending list holds several entries with the same command, a
\* reply with that command removes and resolves the entry of the call sent
\* first among them and leaves the others of that command pending; and
\* whatever packet resolves a call, that call is the oldest one of its command
\* in the list.
C1_OldestFirst ==
  [][/\ \A p \in PlainReplies :
          ( /\ p.command \in api
            /\ Several(responseCallbacks, p.command)
            /\ Deliver(p) /\ Accepted(p) )
          => LET id == OldestId(responseCallbacks, p.command) IN
             /\ ~InList(responseCallbacks', id)
             /\ timer'[id].state = "cleared"
             /\ Waiting(id)
                  => promise'[id] = "resolved"
                     /\ microtasks' = Append(microtasks, id)
             /\ \A j \in CallIds \ {id} :
                  InList(responseCallbacks, j) /\ sent[j].command = p.command
                  => InList(responseCallbacks', j) /\ promise'[j] = promise[j]
     /\ \A id \in CallIds :
          ( /\ Waiting(id) /\ promise'[id] = "resolved"
            /\ microtasks' = Append(microtasks, id) )
          => id = OldestId(responseCallbacks, sent[id].command)
    ]_vars

\* C2: right after the deadline of a non-RESET command has failed its caller
\* with Timeout, the pending list no longer contains the command's entry.
C2_TimeoutRemovesEntry ==
  \A id \in CallIds :
    returned = Returned(id, "Timeout", <<>>)
    => ~InList(responseCallbacks, id)

\* C3: when a call of some command is waiting in the pending list, a reply
\* with that command (that the dispatcher handles without throwing) resolves
\* a waiting call of that command: it is not absorbed by the entry of a call
\* that has already timed out.
C3_LateReply ==
  [][\A p \in PlainReplies :
       ( /\ p.command \in api
         /\ OldestWaiting(p.command) # 0
         /\ Deliver(p) /\ Accepted(p) /\ ~threw' )
       => promise'[OldestWaiting(p.command)] = "resolved"
    ]_vars

\* C4: a call that is still awaited can always settle: its entry is in the
\* pending list (a reply can resolve it) or its deadline is armed (the
\* timeout can complete it).  reset() does not await its RESET request.
C4_CanSettle ==
  \A id \in CallIds :
    (Len(sent) >= id /\ Waiting(id) /\ sent[id].command # "RESET")
    => InList(responseCallbacks, id) \/ timer[id].state = "armed"

C5Commands ==
  {"GET_INVENTORY_BUFFER", "READ", "WRITE", "WRITE_BLOCK", "LOCK", "KILL"}

C5Records ==
  { p \in AllPackets :
      p.integrity = "ok" /\ p.command \in C5Commands /\ IsRecord(p) }

\* The accumulator of address a (empty while queues[a] does not exist).
Held(a, name) == IF queues[a].defined THEN queues[a][name] ELSE <<>>

\* C5: a record of a reply under way (the accumulator holds nothing but
\* records received since the last command was written) is appended to the
\* accumulator; while that leaves the accumulator shorter than the record's
\* count field the record is swallowed, and when it brings the accumulator
\* up to the count it resolves the waiting call of its command; the caller
\* of a call resolved by a record receives exactly count records, in arrival
\* order.
C5_CountCompletes ==
  [][/\ \A p \in C5Records :
          ( /\ p.command \in api
            /\ Deliver(p) /\ Accepted(p)
            /\ \A k \in 1..Len(Held(p.address, QueueOf(p.command))) :
                 Held(p.address, QueueOf(p.command))[k].at = Len(sent) )
          => LET name == QueueOf(p.command)
                 held == Held(p.address, name)
                 id == OldestWaiting(p.command)
             IN
             /\ Len(held) + 1 < Count16(p)
                  => /\ queues'[p.address][name] = Append(held, Rec(held))
                     /\ responseCallbacks' = responseCallbacks
                     /\ promise' = promise
             /\ Len(held) + 1 = Count16(p) /\ id # 0
                  => /\ queues'[p.address][name] = Append(held, Rec(held))
                     /\ promise'[id] = "resolved"
     /\ \A id \in CallIds :
          ( /\ returned'.id = id /\ returned'.kind = "records"
            /\ sent[id].command \in C5Commands
            /\ res[id].datalen >= MinRecordLength )
          => /\ Len(returned'.recs) = Count16([d0 |-> res[id].head[1],
                                               d1 |-> res[id].head[2]])
             /\ \A k \in 1..Len(returned'.recs) : returned'.recs[k].idx = k
    ]_vars

\* C6: the record list a method returns holds only records that arrived
\* after the method had sent its command, never records the accumulator
\* held before.
C6_OnlyOwnRecords ==
  \A id \in CallIds :
    (returned.id = id /\ returned.kind = "records")
    => \A k \in 1..Len(returned.recs) : returned.recs[k].at >= id

\* C7: when a reply pops the front entry because its command differs, the
\* accumulator of that entry's command is empty afterwards, whatever the
\* size of the reply.
C7_ResyncClearsQueue ==
  [][\A p \in PlainReplies :
       ( /\ p.command \in api
         /\ responseCallbacks # <<>>
         /\ responseCallbacks[1].command # p.command
         /\ QueueOf(responseCallbacks[1].command) # "none"
         /\ Deliver(p) /\ Accepted(p) )
       => /\ ~threw'
          /\ ~InList(responseCallbacks', responseCallbacks[1].id)
          /\ queues'[p.address].defined
          /\ queues'[p.address][QueueOf(responseCallbacks[1].command)] = <<>>
    ]_vars

\* The event a packet stands for ("none": the packet is no event).
EventOf(p) ==
  IF p.command = "FAST_SWITCH_ANT_INVENTORY" /\ p.dlen = 2
    THEN "antennaMissing"
  ELSE IF p.command \in SightingCommands /\ p.dlen > 7 THEN "tagFound"
  ELSE IF p.command = "ISO18000_6B_INVENTORY" /\ p.dlen = 9 THEN "tag6BFound"
  ELSE "none"

EventPackets ==
  { p \in AllPackets : p.integrity = "ok" /\ EventOf(p) # "none" }

\* C8: an accepted event packet emits exactly one event of its kind,
\* removes no pending entry and resolves no call.
C8_EventConsumesNothing ==
  [][\A p \in EventPackets :
       (p.command \in api /\ Deliver(p) /\ Accepted(p))
       => /\ emitted' = <<EventOf(p)>>
          /\ responseCallbacks' = responseCallbacks
          /\ promise' = promise
          /\ res' = res
          /\ microtasks' = microtasks
          /\ ~threw'
    ]_vars

\* A sighting has been emitted while the inventory call that asked for it is
\* still waiting at the front of the pending list.
C8_Witness ==
  /\ emitted = <<"tagFound">>
  /\ responseCallbacks # <<>>
  /\ sent[responseCallbacks[1].id].command \in SightingCommands
  /\ Waiting(responseCallbacks[1].id)

\* C9: a tag sighting whose command is that of the front pending entry
\* restarts that entry's deadline from its full timeout and changes no other
\* deadline; when the front entry belongs to another command (or the list is
\* empty) no deadline changes.
C9_SightingRefreshes ==
  [][\A p \in EventPackets :
       ( /\ p.command \in api /\ EventOf(p) # "antennaMissing"
         /\ Deliver(p) /\ Accepted(p) )
       => IF responseCallbacks # <<>>
             /\ responseCallbacks[1].command = p.command
            THEN LET id == responseCallbacks[1].id IN
                 /\ timer'[id] = Rearmed(timer[id])
                 /\ \A j \in CallIds \ {id} : timer'[j] = timer[j]
            ELSE timer' = timer
    ]_vars

\* A sighting has just arrived for the inventory at the front of the list,
\* and that call's deadline stands at its full, non-zero timeout.
C9_Witness ==
  /\ emitted = <<"tagFound">>
  /\ responseCallbacks # <<>>
  /\ LET id == responseCallbacks[1].id IN
     /\ sent[id].command \in SightingCommands
     /\ Waiting(id)
     /\ timer[id].full > 0
     /\ timer[id] = Rearmed(timer[id])

\* The packets that pass the integrity and command checks, by command and
\* sender address.
WellFormedPackets ==
  [c \in Command |->
     [a \in Addresses |->
        { p \in AllPackets :
            p.integrity = "ok" /\ p.command = c /\ p.address = a }]]

\* C10: while the target address is not PUBLIC a packet from another address
\* resolves no call, emits no event and changes no accumulator (nor the
\* pending list or a deadline); when it is PUBLIC a reply from any address
\* resolves the waiting call at the front of the list that it matches.
C10_AddressFilter ==
  [][/\ rs485Address # PUBLIC
          => \A c \in api : \A a \in Addresses \ {rs485Address} :
               \A p \in WellFormedPackets[c][a] :
                 Deliver(p)
                 => /\ emitted' = <<>>
                    /\ UNCHANGED <<responseCallbacks, queues, promise, res,
                                   timer, microtasks>>
     /\ ( /\ rs485Address = PUBLIC /\ responseCallbacks # <<>>
          /\ Waiting(responseCallbacks[1].id) )
          => \A a \in Addresses :
               \A p \in WellFormedPackets[responseCallbacks[1].command][a] :
                 (p.dlen = 1 /\ Deliver(p))
                 => /\ promise'[responseCallbacks[1].id] = "resolved"
                    /\ res'[responseCallbacks[1].id].address = p.address
    ]_vars

\* With the PUBLIC target address, a call has been resolved by a reply from
\* address 2.
C10_Witness ==
  /\ rs485Address = PUBLIC
  /\ \E id \in CallIds :
       promise[id] = "resolved" /\ res[id].set /\ res[id].address = 2

\* The sum of the bytes lo..hi of a packet.
RECURSIVE ByteSum(_, _, _)
ByteSum(bytes, lo, hi) ==
  IF lo > hi THEN 0
  ELSE IF lo = hi THEN bytes[lo]
  ELSE ByteSum(bytes, lo, (lo + hi) \div 2)
       + ByteSum(bytes, (lo + hi) \div 2 + 1, hi)

\* C11: every packet written to the serial port starts with the header byte
\* 0xA0, carries its total length minus 2 in its second byte and ends with
\* the LRC of the bytes before it, (256 - (sum mod 256)) mod 256, so that the
\* bytes of the whole packet sum to 0 modulo 256.
C11_PacketWellFormed ==
  written # <<>>
  => /\ written[1] = PacketHeader
     /\ written[2] = Len(written) - 2
     /\ written[Len(written)]
          = (256 - (ByteSum(written, 1, Len(written) - 1) % 256)) % 256
     /\ ByteSum(written, 1, Len(written)) % 256 = 0

\* C12: the reply a call is resolved with has the first payload byte as
\* errorCode, and the bytes after it as data, exactly when the policy of the
\* command is YES, or it is IF_SINGLE_BYTE_DATA and the length byte is 4, or
\* the command is GET_RF_LINK_PROFILE and the byte is no profile code, or the
\* command is GET_RF_PORT_RETURN_LOSS and the byte is 0xEE, or the command is
\* TAG_MASK, the length byte is 4 and the byte is not 0; in every other case
\* errorCode is absent and the whole payload is data.
C12_ErrorCodeTaken ==
  [][res' # res
       => \A p \in WorkloadPackets[api] :
            Deliver(p)
            => \A id \in CallIds :
                 (res'[id].set /\ ~res[id].set)
                 => LET length == p.dlen + 3
                        policy == CommandReturnsError(p.command)
                        taken ==
                          \/ policy = "YES"
                          \/ policy = "IF_SINGLE_BYTE_DATA" /\ length = 4
                          \/ p.command = "GET_RF_LINK_PROFILE"
                               /\ p.d0 \notin {208, 209, 210, 211}
                          \/ p.command = "GET_RF_PORT_RETURN_LOSS"
                               /\ p.d0 = 238
                          \/ p.command = "TAG_MASK" /\ length = 4
                               /\ p.d0 # 0
                    IN IF taken
                         THEN /\ res'[id].errorCode = p.d0
                              /\ res'[id].datalen = p.dlen - 1
                         ELSE /\ res'[id].errorCode = -1
                              /\ res'[id].datalen = p.dlen
    ]_vars

\* A getReturnLoss call has been resolved by the reply 0xEE, read as an
\* error code.
C12_Witness ==
  \E id \in CallIds :
    /\ res[id].set /\ res[id].command = "GET_RF_PORT_RETURN_LOSS"
    /\ res[id].errorCode = FAIL_TO_GET_RF_PORT_RETURN_LOSS
    /\ res[id].datalen = 0

\* C13: the success flag of the reply a call is resolved with is true exactly
\* when errorCode is absent, or is 0x10 (SUCCESS), or is 0x38
\* (BUFFER_IS_EMPTY) and the command is GET_AND_RESET_INVENTORY_BUFFER.
C13_SuccessFlag ==
  \A id \in CallIds :
    res[id].set
    => ( res[id].success
         <=> \/ res[id].errorCode = -1
             \/ res[id].errorCode = 16
             \/ /\ res[id].errorCode = 56
                /\ res[id].command = "GET_AND_RESET_INVENTORY_BUFFER" )

\* A getInventoryBuffer call with reset has been resolved as a success by
\* the error code BUFFER_IS_EMPTY, and one without reset as a failure by the
\* same code.
C13_Witness ==
  \E i, j \in CallIds :
    /\ res[i].set /\ res[i].command = "GET_AND_RESET_INVENTORY_BUFFER"
    /\ res[i].errorCode = BUFFER_IS_EMPTY_ERROR /\ res[i].success
    /\ res[j].set /\ res[j].command = "GET_INVENTORY_BUFFER"
    /\ res[j].errorCode = BUFFER_IS_EMPTY_ERROR /\ ~res[j].success

\* C14: when the reply that resolves a readTags, writeTags, lockTags,
\* killTags or getInventoryBuffer call is an error reply (an error code that
\* does not count as success), the call completes with false, in every state
\* of the reader.
C14_ErrorGivesFalse ==
  [][\A id \in CallIds :
       ( /\ microtasks # <<>> /\ Head(microtasks) = id
         /\ microtasks' = Tail(microtasks)
         /\ sent[id].command \in RecordCommands
         /\ res[id].errorCode # -1 /\ ~res[id].success )
       => returned' = Returned(id, "false", <<>>)
    ]_vars

\* C15: reset() writes the packet A0 03 <address> 70 <LRC> (A0 03 FF 70 EE
\* with the broadcast address), and its RESET request is completed by its
\* deadline with success: while the request is pending the deadline is
\* running, and the request never fails.
C15_ResetCompletes ==
  \A id \in CallIds :
    (Len(sent) >= id /\ sent[id].command = "RESET")
    => /\ returned = Returned(id, "void", <<>>)
            => written = <<160, 3, sent[id].address, 112,
                           (256 - ((160 + 3 + sent[id].address + 112) % 256))
                             % 256>>
       /\ promise[id] = "pending" => timer[id].state = "armed"
       /\ promise[id] # "rejected"

\* C16: right after reset() the pending list is empty, every accumulator is
\* empty and the phase-mode flag is OFF.
C16_ResetTearsDown ==
  returned.kind = "void"
  => /\ responseCallbacks = <<>>
     /\ \A a \in Addresses : \A name \in QueueNames : Held(a, name) = <<>>
     /\ phaseMode = "OFF"

\* C17: the continuation of setBaudRate and setModuleFunction resets the
\* state only on a success reply: after a success reply the pending list and
\* every accumulator are empty and, for setBaudRate, the baud rate of the
\* local port is the requested one; after an error reply the baud rate of
\* the local port, the pending list, the deadlines and the accumulators are
\* unchanged.
C17_ResetOnlyOnSuccess ==
  [][\A id \in CallIds :
       ( /\ microtasks # <<>> /\ Head(microtasks) = id
         /\ microtasks' = Tail(microtasks)
         /\ sent[id].command \in {"SET_UART_BAUDRATE", "SET_MODULE_FUNCTION"} )
       => IF res[id].success
            THEN /\ responseCallbacks' = <<>>
                 /\ \A a \in Addresses : \A name \in QueueNames :
                      Held(a, name)' = <<>>
                 /\ sent[id].command = "SET_UART_BAUDRATE"
                      => baudRate' = sent[id].arg
            ELSE /\ baudRate' = baudRate
                 /\ UNCHANGED <<responseCallbacks, queues, timer>>
    ]_vars

\* setBaudRate has returned true, the port has the requested baud rate, and
\* the reset dropped the entry of a call that is still awaited.
C17_Witness ==
  \E id, j \in CallIds :
    /\ returned = Returned(id, "true", <<>>)
    /\ sent[id].command = "SET_UART_BAUDRATE" /\ baudRate = sent[id].arg
    /\ baudRate # 115200
    /\ Len(sent) >= j /\ Waiting(j) /\ timer[j].state = "cleared"
    /\ responseCallbacks = <<>>

\* C18: the configured target address changes only in the continuation of a
\* setAddress call that received a success reply, and then becomes the new
\* address; that continuation leaves it unchanged after an error reply, and
\* so does every other step, a timeout included; every packet written
\* carries the address configured when it is written.
C18_AddressChanges ==
  [][/\ rs485Address' # rs485Address
          => /\ microtasks # <<>>
             /\ microtasks' = Tail(microtasks)
             /\ sent[Head(microtasks)].command = "SET_READER_ADDRESS"
             /\ res[Head(microtasks)].success
     /\ \A id \in CallIds :
          ( /\ microtasks # <<>> /\ Head(microtasks) = id
            /\ microtasks' = Tail(microtasks)
            /\ sent[id].command = "SET_READER_ADDRESS" )
          => rs485Address' = IF res[id].success THEN sent[id].arg
                             ELSE rs485Address
     /\ returned'.kind = "Timeout" => rs485Address' = rs485Address
     /\ written' # <<>> => written'[3] = rs485Address
    ]_vars

\* setAddress has changed the target address from 1 to 2 and the packet of
\* the next command has been written with address 2.
C18_Witness ==
  \E id, j \in CallIds :
    /\ id < j /\ Len(sent) = j
    /\ sent[id].command = "SET_READER_ADDRESS" /\ sent[id].address = 1
    /\ rs485Address = 2 /\ sent[j].address = 2
    /\ written # <<>> /\ written[3] = 2

\* The packets processResponsePacket drops: they fail the integrity check
\* (length below 4, size other than length + 2, LRC mismatch), the address
\* filter or the known-command check.
Dropped ==
  { p \in WorkloadPackets[api] :
      \/ p.integrity \in {"short", "badlength", "badlrc"}
      \/ rs485Address # PUBLIC /\ p.address # rs485Address
      \/ p.command \notin Command }

\* C19: a packet that fails the integrity check, the address filter or the
\* known-command check is dropped with no effect: the pending list, the
\* deadlines, the accumulators and phaseMode are unchanged, no call is
\* resolved and no event is emitted.
C19_DroppedNoEffect ==
  [][\A p \in Dropped :
       Deliver(p)
       => /\ UNCHANGED <<responseCallbacks, timer, queues, phaseMode,
                         promise, res, microtasks>>
          /\ emitted' = <<>>
    ]_vars

\* The state a dropped packet leaves while two calls are awaited: nothing
\* written, returned or emitted by the last step, every call still in the
\* pending list with its deadline running, no accumulator created.
C19_Witness ==
  /\ rs485Address # PUBLIC
  /\ Len(sent) = 2 /\ Len(responseCallbacks) = 2
  /\ \A id \in 1..2 : Waiting(id) /\ timer[id].state = "armed"
  /\ \A a \in Addresses : ~queues[a].defined
  /\ written = <<>> /\ returned = NoReturn /\ emitted = <<>>
  /\ microtasks = <<>>

\* The calls the public methods reject: a byte argument outside 0..255, a
\* password that is not 4 bytes, an identifier that is not 12 bytes, an EPC
\* match outside 1..62 bytes, a 6B UID that is not 8 bytes, an unsupported
\* baud rate.
Rejecting ==
  \/ readTags(256)
  \/ setAddress(256)
  \/ startBufferedInventory(256)
  \/ startRealTimeInventory(256)
  \/ \E phase \in {"none"} \cup PhaseModes :
       \/ \E powersave \in {0, 2, 256} :
            startSessionInventory(256, phase, powersave)
       \/ \E repeat \in 0..MaxRepeat :
            startSessionInventory(repeat, phase, 256)
       \/ startFastSwitchAntennaInventory(256, phase)
  \/ \E blockWrite \in BOOLEAN, dataLength \in {3, 246} :
       writeTags(blockWrite, 3, dataLength)
  \/ lockTags(3)
  \/ killTags(3)
  \/ setIdentifier(Zeros(11))
  \/ setAccessEPCMatch(0)
  \/ setAccessEPCMatch(63)
  \/ read6BTag(7, 0)
  \/ read6BTag(8, 256)
  \/ setBaudRate(38400)

\* C20: a public method that rejects its arguments writes nothing to the
\* serial port, creates no pending entry and leaves phaseMode and the
\* accumulators unchanged.
C20_RejectedNoEffect ==
  [][Rejecting
       => /\ written' = <<>>
          /\ returned'.kind \in {"RangeError", "false"}
          /\ UNCHANGED <<sent, responseCallbacks, timer, promise, phaseMode,
                         queues>>
    ]_vars

\* An inventory call has been rejected with a RangeError while phaseMode is
\* ON and the call that set it is still in the pending list.
C20_Witness ==
  /\ returned = Returned(0, "RangeError", <<>>)
  /\ phaseMode = "ON"
  /\ responseCallbacks # <<>>
  /\ written = <<>>

\* C21: a tag event is emitted in the step that processes its packet, and
\* never while the result of a reply that arrived before that packet is
\* still to be delivered to the awaiting caller (the continuation of the
\* resolved call has not run yet).
C21_EventsAfterReply ==
  [][(\E k \in 1..Len(emitted') :
        emitted'[k] \in {"tagFound", "tag6BFound"})
       => /\ \E p \in WorkloadPackets[api] : Deliver(p)
          /\ microtasks = <<>>
    ]_vars

BufferRecords ==
  [c \in {"GET_INVENTORY_BUFFER", "GET_AND_RESET_INVENTORY_BUFFER"} |->
     { p \in AllPackets :
         p.integrity = "ok" /\ p.command = c /\ IsRecord(p) }]

\* C23 as stated: the GET_AND_RESET_INVENTORY_BUFFER record that brings the
\* inventory accumulator up to its count field resolves the call waiting at
\* the head of the pending list.
C23_ResetVariantCompletes ==
  [][\A p \in BufferRecords["GET_AND_RESET_INVENTORY_BUFFER"] :
       ( /\ p.command \in api
         /\ Deliver(p) /\ Accepted(p)
         /\ FrontMatches(responseCallbacks, p.command)
         /\ Waiting(responseCallbacks[1].id)
         /\ Len(Held(p.address, "inventory")) + 1 = Count16(p) )
       => promise'[responseCallbacks[1].id] = "resolved"
    ]_vars

\* C23 amended: a GET_INVENTORY_BUFFER record that brings the inventory
\* accumulator up to its count field resolves the call waiting at the head
\* of the pending list, and a record that does not is appended and
\* swallowed; a GET_AND_RESET_INVENTORY_BUFFER record is appended and
\* swallowed whatever its count: it resolves no call.
C23_ResetVariantSwallows ==
  [][\A c \in DOMAIN BufferRecords : \A p \in BufferRecords[c] :
       ( p.command \in api /\ Deliver(p) /\ Accepted(p) )
       => LET held == Held(p.address, "inventory") IN
          /\ ( c = "GET_AND_RESET_INVENTORY_BUFFER"
               \/ Len(held) + 1 # Count16(p) )
               => /\ queues'[p.address].inventory = Append(held, Rec(held))
                  /\ UNCHANGED <<responseCallbacks, promise, res,
                                 microtasks, timer>>
          /\ ( /\ c = "GET_INVENTORY_BUFFER"
               /\ Len(held) + 1 = Count16(p)
               /\ FrontMatches(responseCallbacks, c)
               /\ Waiting(responseCallbacks[1].id) )
               => /\ queues'[p.address].inventory = Append(held, Rec(held))
                  /\ promise'[responseCallbacks[1].id] = "resolved"
    ]_vars

\* A getInventoryBuffer call with reset is still waiting at the head of the
\* pending list after a record of its reply has been appended.
C23_Witness ==
  /\ responseCallbacks # <<>>
  /\ responseCallbacks[1].command = "GET_AND_RESET_INVENTORY_BUFFER"
  /\ Waiting(responseCallbacks[1].id)
  /\ \E a \in Addresses :
       /\ Len(Held(a, "inventory")) = 1
       /\ Held(a, "inventory")[1].at >= responseCallbacks[1].id

\* The records of a TAG_MASK list reply: the first byte is the mask ID, the
\* second the number of masks.
MaskRecords ==
  { p \in AllPackets :
      p.integrity = "ok" /\ p.command = "TAG_MASK" /\ IsRecord(p) }

\* C24 as stated: a TAG_MASK record that leaves the masks accumulator with
\* a length other than the 16-bit big-endian value of the record's first two
\* bytes resolves no call.
C24_MaskCount16 ==
  [][\A p \in MaskRecords :
       ( /\ p.command \in api
         /\ Deliver(p) /\ Accepted(p)
         /\ Len(Held(p.address, "masks")) + 1 # Count16(p) )
       => promise' = promise
    ]_vars

\* C24 amended: completion is inferred from the second byte of the record,
\* the number of masks: the record that brings the masks accumulator up to
\* that number resolves the getTagMasks call waiting at the head of the
\* pending list, and a record that does not is appended and swallowed.
C24_MaskCountByte ==
  [][\A p \in MaskRecords :
       ( p.command \in api /\ Deliver(p) /\ Accepted(p) )
       => LET held == Held(p.address, "masks") IN
          /\ Len(held) + 1 # p.d1
               => /\ queues'[p.address].masks = Append(held, Rec(held))
                  /\ UNCHANGED <<responseCallbacks, promise, res,
                                 microtasks, timer>>
          /\ ( /\ Len(held) + 1 = p.d1
               /\ FrontMatches(responseCallbacks, "TAG_MASK")
               /\ Waiting(responseCallbacks[1].id) )
               => /\ queues'[p.address].masks = Append(held, Rec(held))
                  /\ promise'[responseCallbacks[1].id] = "resolved"
    ]_vars

\* A getTagMasks call has been resolved by the record of mask ID 1 that
\* announces one mask and is the one mask in the accumulator.
C24_Witness ==
  \E id \in CallIds :
    /\ promise[id] = "resolved" /\ res[id].set
    /\ res[id].command = "TAG_MASK" /\ res[id].head = <<1, 1>>
    /\ Len(Held(res[id].address, "masks")) = 1

\* C25: after a startSessionInventory or startFastSwitchAntennaInventory
\* call that passed its argument checks phaseMode is the phase argument, or
\* OFF when phase was omitted; after such a startRealTimeInventory call it
\* is OFF; and no other step (a reply, an event, a timeout, another
\* command) changes phaseMode.
C25_PhaseModeFollowsCalls ==
  [][/\ \A repeat \in 0..MaxRepeat, phase \in {"none"} \cup PhaseModes :
          ( \/ \E powersave \in {0, 2} :
                 startSessionInventory(repeat, phase, powersave)
            \/ startFastSwitchAntennaInventory(repeat, phase) )
          => phaseMode' = IF phase = "none" THEN "OFF" ELSE phase
     /\ \A repeat \in 0..MaxRepeat :
          startRealTimeInventory(repeat) => phaseMode' = "OFF"
     /\ phaseMode' # phaseMode
          => /\ written' # <<>>
             /\ sent'[Len(sent')].command \in SightingCommands
    ]_vars

\* A session inventory started with phase ON has been answered and its
\* continuation has run: phaseMode is still ON.
C25_Witness ==
  /\ phaseMode = "ON"
  /\ \E id \in CallIds :
       /\ Len(sent) >= id
       /\ sent[id].command = "CUSTOMIZED_SESSION_TARGET_INVENTORY"
       /\ promise[id] = "resolved"
       /\ returned.id = id

\* C26: the deadline registered for an inventory command is
\* repeat * 255 ms + 1000 ms for buffered, real-time and fast-switch
\* inventory, and repeat * 255 ms + powersave * 64 ms + 1000 ms for session
\* inventory.
C26_InventoryDeadline ==
  [][\A repeat \in 0..MaxRepeat :
       /\ ( \/ startBufferedInventory(repeat)
            \/ startRealTimeInventory(repeat)
            \/ \E phase \in {"none"} \cup PhaseModes :
                 startFastSwitchAntennaInventory(repeat, phase) )
          => timer'[Len(sent')].ms = repeat * 255 + 1000
       /\ \A powersave \in {0, 2} :
            (\E phase \in {"none"} \cup PhaseModes :
               startSessionInventory(repeat, phase, powersave))
            => timer'[Len(sent')].ms
                 = repeat * 255 + powersave * 64 + 1000
    ]_vars

\* C26, amended: the deadline registered for buffered, real-time and
\* fast-switch inventory is repeat * 255 ms + 1000 ms; the one registered
\* for session inventory is repeat * 64 ms + powersave * 64 ms + 1000 ms.
C26_SessionDeadline64 ==
  [][\A repeat \in 0..MaxRepeat :
       /\ ( \/ startBufferedInventory(repeat)
            \/ startRealTimeInventory(repeat)
            \/ \E phase \in {"none"} \cup PhaseModes :
                 startFastSwitchAntennaInventory(repeat, phase) )
          => /\ timer'[Len(sent')].state = "armed"
             /\ timer'[Len(sent')].ms = repeat * 255 + 1000
       /\ \A powersave \in {0, 2} :
            (\E phase \in {"none"} \cup PhaseModes :
               startSessionInventory(repeat, phase, powersave))
            => /\ timer'[Len(sent')].state = "armed"
               /\ timer'[Len(sent')].ms
                    = repeat * 64 + powersave * 64 + 1000
    ]_vars

\* A session inventory with repeat 1 and powersave 2 has just been sent
\* and its timer is registered with 1192 ms; a session inventory with
\* no repeat and no powersave went before it with 1000 ms.
C26_Witness ==
  /\ Len(sent) = 2
  /\ written # <<>>
  /\ sent[2].command = "CUSTOMIZED_SESSION_TARGET_INVENTORY"
  /\ timer[2].state = "armed"
  /\ timer[2].ms = 1192
  /\ sent[1].command = "CUSTOMIZED_SESSION_TARGET_INVENTORY"
  /\ timer[1].ms = 1000

\* C27: a tag record whose CRC does not match PC + EPC, or whose PC
\* declares another EPC length than the EPC slice has, is still reported:
\* a sighting is still emitted as tagFound, and a buffered, read, write,
\* lock or kill record is still appended to its accumulator and counted
\* toward completion (the validators only write to the debug log).
C27_InvalidTagReported ==
  [][\A p \in BadTagPackets(api) :
       (Deliver(p) /\ Accepted(p))
       => /\ logged' # <<>>
          /\ p.command \in SightingCommands
               => emitted' = <<"tagFound">>
          /\ p.command \in RecordCommands
               => LET name == QueueOf(p.command)
                      queue == Held(p.address, name)
                      skipCallback ==
                        \/ Count16(p) # Len(queue) + 1
                        \/ p.command = "GET_AND_RESET_INVENTORY_BUFFER"
                  IN
                  /\ skipCallback
                       => /\ Held(p.address, name)'
                               = Append(queue, Rec(queue))
                          /\ UNCHANGED <<responseCallbacks, promise>>
                  /\ ( /\ ~skipCallback
                       /\ FrontMatches(responseCallbacks, p.command) )
                       => LET id == responseCallbacks[1].id IN
                          /\ Held(p.address, name)'
                               = Append(queue, Rec(queue))
                          /\ responseCallbacks' = Tail(responseCallbacks)
                          /\ Waiting(id)
                               => /\ promise'[id] = "resolved"
                                  /\ microtasks' = Append(microtasks, id)
    ]_vars

\* A write, lock, kill, read or buffer record with a wrong CRC has just
\* completed its command: the record is held by the accumulator and the
\* promise is resolved.
C27_Witness ==
  /\ logged = <<"Invalid data CRC">>
  /\ \E id \in CallIds :
       /\ promise[id] = "resolved" /\ res[id].set
       /\ res[id].command \in RecordCommands
       /\ microtasks # <<>> /\ microtasks[Len(microtasks)] = id
       /\ Len(Held(res[id].address, QueueOf(res[id].command))) = 1

\* ------------------------------------------------ frame reader (main.ts)
MaxChunk == 12
MaxFrames == 2
MaxWaiting == 1
STARTBYTE == 160

\* checksum(bytes) of utils.ts: the 8-bit sum, negated.
checksum(bytes) == ToUint8(0 - ToUint8(ByteSum(bytes, 1, Len(bytes))))

\* A frame with its check byte appended.
Framed(address, command, payload) ==
  LET message == <<STARTBYTE, Len(payload) + 3, address, command>> \o payload
  IN Append(message, checksum(message))

\* The reply to set_work_antenna and a tag of a real time inventory.
ReplyFrame == Framed(1, CommandCode("SET_WORK_ANTENNA"), <<SUCCESS>>)
TagFrame == Framed(1, CommandCode("REAL_TIME_INVENTORY"), <<0, 48, 0, 17, 60>>)

\* A frame whose check byte was damaged on the line.
Corrupted(packet) ==
  [packet EXCEPT ![Len(packet)] = ToUint8(packet[Len(packet)] + 1)]

\* A header byte and a length byte that claim the next frame as payload.
Stray == <<STARTBYTE, Len(ReplyFrame)>>

Frames == {ReplyFrame, TagFrame, Corrupted(ReplyFrame)}

\* The inbound streams: up to MaxFrames frames, behind a noise byte or not,
\* and a frame behind a stray header.
Streams ==
  { prefix \o frames :
      prefix \in {<<>>, <<(<<7>>)>>},
      frames \in UNION { [1..n -> Frames] : n \in 1..MaxFrames } }
  \cup { <<Stray, ReplyFrame>> }

RECURSIVE Flatten(_)
Flatten(items) ==
  IF items = <<>> THEN <<>> ELSE Head(items) \o Flatten(Tail(items))

Wire == Flatten(inbound)

\* data.at(i), with the first byte at 1; NaN stands for undefined.
At(data, i) == IF i <= Len(data) THEN data[i] ELSE NaN

\* data.indexOf(byte, from), with the first byte at 1 and 0 for "not found".
IndexOf(data, byte, from) ==
  IF \E i \in from..Len(data) : data[i] = byte
    THEN CHOOSE i \in from..Len(data) :
           /\ data[i] = byte
           /\ \A j \in from..(i - 1) : data[j] # byte
    ELSE 0

Decoded(exc, found, response, remaining) ==
  [threw |-> exc, found |-> found, response |-> response,
   remaining |-> remaining]

NoResponse == [length |-> 0, address |-> 0, command |-> 0, packet |-> <<>>]

\* A mismatch of the check byte and an unknown command are only logged.
findResponse(data) ==
  IF At(data, 1) # STARTBYTE \/ Len(data) < 2
    THEN Decoded(TRUE, FALSE, NoResponse, <<>>)
  ELSE
    LET length == data[2]
        totalLen == length + 2
    IN
    IF Len(data) < totalLen THEN Decoded(FALSE, FALSE, NoResponse, <<>>)
    ELSE Decoded(FALSE, TRUE,
                 [length |-> length, address |-> At(data, 3),
                  command |-> At(data, 4),
                  packet |-> SubSeq(data, 1, totalLen)],
                 SubSeq(data, totalLen + 2, Len(data)))

\* The loop of decodeResponse, after the header byte at startIndex.
RECURSIVE decodeFrom(_, _)
decodeFrom(data, startIndex) ==
  LET next == IndexOf(data, STARTBYTE, startIndex + 1) IN
  IF next = 0 THEN Decoded(FALSE, FALSE, NoResponse, <<>>)
  ELSE
    LET r == findResponse(SubSeq(data, next, Len(data))) IN
    IF r.threw \/ r.found THEN r ELSE decodeFrom(data, next)

decodeResponse(data) == decodeFrom(data, 0)

FrameCommands ==
  {CommandCode("SET_WORK_ANTENNA"), CommandCode("REAL_TIME_INVENTORY")}

\* waitForResponse(cmd): a caller of sendMessage starts to wait.
waitForResponse(cmd) ==
  /\ ~threw
  /\ resolvers[cmd] < MaxWaiting
  /\ resolvers' = [resolvers EXCEPT ![cmd] = @ + 1]
  /\ emitted' = <<>>
  /\ UNCHANGED <<api, budget, readers, settings, phaseMode, sent,
                 responseCallbacks, queues, promise, res, timer, microtasks,
                 returned, written, threw, logged>>
  /\ UNCHANGED <<inbound, cursor, dataBuf, response_queue, received,
                 sighting, device>>

\* The "data" handler of the serial port, called with the next n bytes.
Data(n) ==
  /\ ~threw
  /\ cursor + n <= Len(Wire)
  /\ LET chunk == SubSeq(Wire, cursor + 1, cursor + n)
         fullBuf == dataBuf \o chunk
         r == decodeResponse(fullBuf)
         found == r.response
     IN
     /\ cursor' = cursor + n
     /\ threw' = r.threw
     /\ IF r.threw \/ ~r.found
          THEN /\ dataBuf' = fullBuf
               /\ emitted' = <<>>
               /\ UNCHANGED <<resolvers, response_queue, received>>
          ELSE /\ dataBuf' = r.remaining
               /\ received' = Append(received, found.packet)
               /\ IF /\ found.command
                          \in {CommandCode("FAST_SWITCH_ANT_INVENTORY"),
                               CommandCode("REAL_TIME_INVENTORY")}
                     /\ found.length # 10
                    THEN /\ emitted' = <<"tagFound">>
                         /\ UNCHANGED <<resolvers, response_queue>>
                  ELSE IF /\ found.command \in DOMAIN resolvers
                          /\ resolvers[found.command] > 0
                    THEN /\ resolvers' =
                              [resolvers EXCEPT ![found.command] = @ - 1]
                         /\ emitted' = <<>>
                         /\ UNCHANGED response_queue
                  ELSE /\ response_queue' =
                            Append(response_queue, found.packet)
                       /\ emitted' = <<>>
                       /\ UNCHANGED resolvers
  /\ UNCHANGED <<api, budget, readers, settings, phaseMode, sent,
                 responseCallbacks, queues, promise, res, timer, microtasks,
                 returned, written, logged>>
  /\ UNCHANGED <<inbound, sighting, device>>

FrameInit ==
  /\ Start({<<{}, PUBLIC, {}, 0>>})
  /\ inbound \in Streams
  /\ cursor = 0
  /\ dataBuf = <<>>
  /\ resolvers = [cmd \in FrameCommands |-> 0]
  /\ response_queue = <<>>
  /\ received = <<>>
  /\ tagData = <<>>
  /\ tag = <<>>
  /\ device = <<>>

FrameNext ==
  \/ \E n \in 1..MaxChunk : Data(n)
  \/ \E cmd \in FrameCommands : waitForResponse(cmd)

FrameSpec == FrameInit /\ [][FrameNext]_vars

\* A frame of the packet layout: header, length byte, and a check byte that
\* is the LRC of the bytes before it.
WellFormed(item) ==
  /\ Len(item) >= 6
  /\ item[1] = STARTBYTE
  /\ item[2] = Len(item) - 2
  /\ item[Len(item)] = checksum(SubSeq(item, 1, Len(item) - 1))

\* The well-formed packets of the inbound stream, in wire order.
Expected == SelectSeq(inbound, WellFormed)

IsPrefix(s, t) == Len(s) <= Len(t) /\ SubSeq(t, 1, Len(s)) = s

\* C28: the frame reader delivers every well-formed packet of the inbound
\* stream exactly once and in wire order, whatever precedes its header and
\* however the stream is split into chunks: what it has delivered is always
\* a prefix of the stream's well-formed packets, it is all of them once the
\* last byte has arrived, and no chunk makes the reader throw.
C28_EveryPacketOnce ==
  /\ ~threw
  /\ IsPrefix(received, Expected)
  /\ cursor = Len(Wire) => received = Expected

\* C29: a candidate frame that fails the LRC check resolves no waiting
\* command, emits no event and is not handed on, and a well-formed packet
\* that starts inside its span is still delivered once its last byte has
\* arrived.
C29_BadLrcDropped ==
  [][/\ ( /\ Len(received') > Len(received)
          /\ ~WellFormed(received'[Len(received')]) )
          => /\ emitted' = <<>>
             /\ resolvers' = resolvers
     /\ cursor' = Len(Wire)
          => \A k \in 1..Len(inbound) :
               WellFormed(inbound[k])
               => \E j \in 1..Len(received') : received'[j] = inbound[k]
    ]_vars

\* C30: writeTags with data of odd byte length sends the data followed by
\* one zero byte and a word count of (length + 1) / 2, and with data of even
\* length sends the data unchanged with word count length / 2: the payload
\* written is the password, the memory bank, the address, the word count
\* and the words.
C30_OddDataPadded ==
  [][\A blockWrite \in BOOLEAN, dataLength \in {3, 246} :
       writeTags(blockWrite, 4, dataLength)
       => LET data == DataBytes(dataLength)
              words == IF dataLength % 2 = 1 THEN (dataLength + 1) \div 2
                       ELSE dataLength \div 2
              sentData == IF dataLength % 2 = 1 THEN data \o <<0>> ELSE data
          IN
          /\ written'[4] = CommandCode(IF blockWrite THEN "WRITE_BLOCK"
                                       ELSE "WRITE")
          /\ SubSeq(written', 5, Len(written') - 1)
               = Zeros(4) \o <<MemBank, 0, words>> \o sentData
    ]_vars

\* The 3 bytes DE AD BE have just been written as word count 2 and data
\* DE AD BE 00.
C30_Witness ==
  /\ Len(written) = 16
  /\ written[4] \in {CommandCode("WRITE"), CommandCode("WRITE_BLOCK")}
  /\ written[11] = 2
  /\ SubSeq(written, 12, 15) = <<222, 173, 190, 0>>
C32_SightingDecoded ==
  [][\A command \in SightingCommands :
       Sighting(command)
         => LET n == Len(tagData)
                k == IF phaseMode = "ON" THEN n - 2 ELSE n
                r == tagData[k]
            IN /\ tag'.frequency = tagData[1] \div 4
               /\ tag'.pc = tagData[2] * 256 + tagData[3]
               /\ tag'.rssi = (r % 128) - 129
               /\ tag'.antenna = (tagData[1] % 4) + 4 * (r \div 128)
               /\ tag'.epc = [i \in 1..(k - 4) |-> tagData[i + 3]]
               /\ ("phaseAngle" \in DOMAIN tag') = (phaseMode = "ON")
               /\ phaseMode = "ON"
                    => tag'.phaseAngle = tagData[n - 1] * 256 + tagData[n]]_vars

\* A sighting was parsed in phase mode: antenna 8 at frequency 63 with the
\* RSSI byte before the two phase bytes.
C32_Witness ==
  /\ phaseMode = "ON"
  /\ tagData = <<255, 18, 52, 226, 0, 17, 34, 255, 255, 1>>
  /\ tag = [pc |-> 4660, epc |-> <<226, 0, 17, 34>>, rssi |-> -2, antenna |-> 7,
            frequency |-> 63, phaseAngle |-> 65281]

\* The request just written carries the code of command, and the entry
\* just registered is filed under command.
RequestedAs(command) ==
  /\ written'[4] = CommandCode(command)
  /\ responseCallbacks'[Len(responseCallbacks')].command = command

\* C33: read6BTag, write6BTag, lock6BTagByte and queryLock6BTagByte each
\* frame their request with their own command code (B1, B2, B3 and B4) and
\* register their pending entry under that same code.
C33_OwnCommandCode ==
  [][\A uidLength \in {7, 8}, address \in {0, 256} :
       /\ (read6BTag(uidLength, address) /\ written' # <<>>)
            => RequestedAs("ISO18000_6B_READ")
       /\ (write6BTag(uidLength, address) /\ written' # <<>>)
            => RequestedAs("ISO18000_6B_WRITE")
       /\ (lock6BTagByte(uidLength, address) /\ written' # <<>>)
            => RequestedAs("ISO18000_6B_LOCK")
       /\ (queryLock6BTagByte(uidLength, address) /\ written' # <<>>)
            => RequestedAs("ISO18000_6B_QUERY_LOCK")]_vars

\* The set method that goes with a get command.
SetOf(command) ==
  CASE command = "GET_READER_IDENTIFIER" -> "SET_READER_IDENTIFIER"
    [] command = "GET_WORK_ANTENNA" -> "SET_WORK_ANTENNA"
    [] command = "GET_RF_LINK_PROFILE" -> "SET_RF_LINK_PROFILE"
    [] command = "GET_MODULE_FUNCTION" -> "SET_MODULE_FUNCTION"
    [] command = "GET_ACCESS_EPC_MATCH" -> "SET_ACCESS_EPC_MATCH"
    [] OTHER -> "none"

C35_NeverThrows ==
  [][\A p \in WorkloadPackets[api] :
       (Deliver(p) /\ Accepted(p)) => ~threw']_vars

\* C36: resynchronization never discards records of the reply that is
\* being resolved: when a record completes a reply and resolves a pending
\* entry, whatever stale entries precede it, the accumulator handed to the
\* resolved caller still holds all count records of the reply.
C36_ResyncKeepsReply ==
  [][\A p \in WorkloadPackets[api] :
       ( /\ p.command \in RecordCommands
         /\ IsRecord(p) /\ Deliver(p) /\ Accepted(p)
         /\ \E id \in CallIds :
              promise[id] = "pending" /\ promise'[id] = "resolved" )
         => Len(queues'[p.address][QueueOf(p.command)]) = Count16(p)]_vars

\* C37: a reply packet that arrives while the pending list is empty is
\* dropped without side effects: every accumulator queue holds the same
\* records before and after it.
C37_UnsolicitedDropped ==
  [][\A p \in WorkloadPackets[api] :
       (Deliver(p) /\ Accepted(p) /\ responseCallbacks = <<>>)
         => \A a \in Addresses, name \in QueueNames :
              queues'[a][name] = queues[a][name]]_vars

\* The data bytes of a written packet: what follows head, length, address
\* and command, without the checksum.
DataOf(bytes) == SubSeq(bytes, 5, Len(bytes) - 1)

\* A written packet that starts an inventory whose sightings are parsed by
\* processCommandInventory.
StartsInventory(bytes) ==
  /\ Len(bytes) > 4
  /\ bytes[4] \in { CommandCode("REAL_TIME_INVENTORY"),
                    CommandCode("FAST_SWITCH_ANT_INVENTORY"),
                    CommandCode("CUSTOMIZED_SESSION_TARGET_INVENTORY") }

\* The written inventory packet has a phase byte: a session inventory with
\* session, target, select, phase and repeat at least, or a fast-switch
\* inventory with 8 antenna pairs, the rest interval, the 11 bytes that end
\* with phase, and repeat.
PhaseSent(bytes) ==
  \/ /\ bytes[4] = CommandCode("CUSTOMIZED_SESSION_TARGET_INVENTORY")
     /\ Len(DataOf(bytes)) >= 5
  \/ /\ bytes[4] = CommandCode("FAST_SWITCH_ANT_INVENTORY")
     /\ Len(DataOf(bytes)) = 16 + 1 + 11 + 1

\* C38: phaseMode is ON only if the inventory command just written to the
\* reader carried the phase byte: after a step that writes an inventory
\* command and leaves phaseMode ON, the written packet has a phase byte.
C38_PhaseModeAsRequested ==
  [][(StartsInventory(written') /\ phaseMode' = "ON")
       => PhaseSent(written')]_vars

\* Call id was popped by the resynchronization loop as non-matching and
\* has not been completed: it awaits its result, its entry is no longer
\* pending and its deadline runs.
Hanging(id) ==
  /\ id <= Len(sent)
  /\ promise[id] = "pending"
  /\ ~InList(responseCallbacks, id)
  /\ timer[id].state = "armed"

\* Delivering p pops the entry of call id as non-matching.
PoppedBy(p, id) ==
  /\ InList(responseCallbacks, id)
  /\ ~InList(responseCallbacks', id)
  /\ sent[id].command # p.command
  /\ Accepted(p) /\ Deliver(p)

\* C39: an entry popped during resynchronization as non-matching keeps its
\* deadline: the pop leaves its timer as it was, armed while its call is
\* awaited; nothing but the passing of time changes that timer afterwards;
\* and when it fires the caller is failed with Timeout (a RESET request is
\* resolved instead).
C39_PoppedTimesOut ==
  [][\A id \in CallIds :
       /\ \A p \in WorkloadPackets[api] :
            PoppedBy(p, id)
              => /\ timer'[id] = timer[id]
                 /\ promise'[id] = promise[id]
                 /\ promise[id] = "pending" => timer[id].state = "armed"
       /\ Hanging(id)
            => \/ /\ timer'[id].state = "armed"
                  /\ promise'[id] = "pending"
               \/ /\ timer'[id].state = "fired"
                  /\ IF sent[id].command = "RESET"
                       THEN promise'[id] = "resolved"
                       ELSE /\ promise'[id] = "rejected"
                            /\ returned' = Returned(id, "Timeout", <<>>)
    ]_vars

\* The deadline of a call whose entry the resynchronization loop had popped
\* has just failed the call with Timeout, and a later call has been
\* resolved by the reply that popped it.
C39_Witness ==
  \E id \in CallIds :
    /\ returned = Returned(id, "Timeout", <<>>)
    /\ ~InList(responseCallbacks, id)
    /\ \E later \in CallIds :
         later > id /\ later <= Len(sent) /\ promise[later] = "resolved"
         /\ sent[later].command # sent[id].command

\* Call id has a promise job queued in jobs.
Queued(jobs, id) == \E k \in 1..Len(jobs) : jobs[k] = id

\* C40: each command call is completed at most once.  A settled promise
\* never changes; a reply that resolves a call cancels its deadline, and a
\* cancelled deadline never runs again; the caller observes a Timeout only
\* in the step in which the deadline settles the awaited call, and a reply
\* result only from the one promise job of a call that a reply resolved.
C40_CompletedOnce ==
  [][\A id \in CallIds :
       /\ promise[id] \in {"resolved", "rejected"}
            => promise'[id] = promise[id]
       /\ (promise[id] = "pending" /\ promise'[id] = "resolved"
             /\ sent[id].command # "RESET")
            => timer'[id].state = "cleared"
       /\ timer[id].state = "cleared" => timer'[id] = timer[id]
       /\ (Queued(microtasks', id) /\ ~Queued(microtasks, id))
            => promise[id] = "pending" /\ promise'[id] = "resolved"
       /\ (returned'.id = id /\ sent'[id].command # "RESET")
            => IF returned'.kind = "Timeout"
                 THEN /\ promise[id] = "pending"
                      /\ promise'[id] = "rejected"
                      /\ timer[id].state = "armed"
                 ELSE /\ promise[id] = "resolved"
                      /\ timer[id].state = "cleared"
                      /\ Queued(microtasks, id)
                      /\ ~Queued(microtasks', id)
    ]_vars

\* The caller of one call has just received the result of its reply, with
\* the deadline of that call cancelled, after an earlier call had timed out
\* and the timer of its entry had been cleared afterwards.
C40_Witness ==
  \E id \in CallIds :
    /\ returned.id = id
    /\ returned.kind \notin {"Timeout", "none"}
    /\ promise[id] = "resolved"
    /\ timer[id].state = "cleared"
    /\ \E other \in CallIds :
         /\ other < id
         /\ promise[other] = "rejected"
         /\ timer[other].state = "cleared"

====
